---------------------------- MODULE Spec2Model ----------------------------
(***************************************************************************)
(* Model of the persona / recommendation pipeline of the map application:  *)
(*   - ExaClient.searchXProfile, enrichResultsWithContent,                 *)
(*     filterRelevantResults, extractProfileInfo      (src/app/lib/exa.ts) *)
(*   - OpenAIClient.generatePersona,                                       *)
(*     generateLocationRecommendations             (src/app/lib/openai.ts) *)
(*   - the two route handlers POST /api/persona and POST /api/locations.   *)
(*                                                                         *)
(* Every await on an upstream service is one step of the model: the action *)
(* that receives the upstream answer runs the handler up to its next       *)
(* outbound call or up to its return.  Upstream answers are chosen         *)
(* nondeterministically from small sets.                                   *)
(*                                                                         *)
(* A JavaScript string is a sequence of one-character strings, so that     *)
(* toLowerCase, trim, includes, startsWith and charAt are computed.  An    *)
(* optional value is a sequence of length at most one: <<>> is undefined.  *)
(***************************************************************************)
EXTENDS Integers, Sequences, FiniteSets, TLC

\* ------------------------------------------------------------------------
\* Bounds of the model
\* ------------------------------------------------------------------------

\* longest list of candidate locations one generation response carries
MaxRespLen == 5

\* ------------------------------------------------------------------------
\* JavaScript values
\* ------------------------------------------------------------------------

None == <<>>

Some(x) == <<x>>

IsSome(o) == Len(o) > 0

Val(o) == o[1]

UpperLetters ==
  <<"A","B","C","D","E","F","G","H","I","J","K","L","M",
    "N","O","P","Q","R","S","T","U","V","W","X","Y","Z">>

LowerLetters ==
  <<"a","b","c","d","e","f","g","h","i","j","k","l","m",
    "n","o","p","q","r","s","t","u","v","w","x","y","z">>

LowerOf ==
  [c \in {UpperLetters[i] : i \in 1..26} |->
     LowerLetters[CHOOSE i \in 1..26 : UpperLetters[i] = c]]

UpperOf ==
  [c \in {LowerLetters[i] : i \in 1..26} |->
     UpperLetters[CHOOSE i \in 1..26 : LowerLetters[i] = c]]

ToLowerChar(c) == IF c \in DOMAIN LowerOf THEN LowerOf[c] ELSE c

ToUpperChar(c) == IF c \in DOMAIN UpperOf THEN UpperOf[c] ELSE c

toLowerCase(s) == [i \in 1..Len(s) |-> ToLowerChar(s[i])]

IsSpace(c) == c \in {" ", "\t", "\n"}

SetMin(S) == CHOOSE x \in S : \A y \in S : x <= y

SetMax(S) == CHOOSE x \in S : \A y \in S : y <= x

trim(s) ==
  LET solid == {i \in 1..Len(s) : ~IsSpace(s[i])}
  IN  IF solid = {} THEN <<>> ELSE SubSeq(s, SetMin(solid), SetMax(solid))

includes(s, sub) ==
  \E i \in 0..(Len(s) - Len(sub)) : SubSeq(s, i + 1, i + Len(sub)) = sub

startsWith(s, p) == Len(s) >= Len(p) /\ SubSeq(s, 1, Len(p)) = p

\* handle.charAt(0).toUpperCase() + handle.slice(1)
capitalize(h) ==
  IF Len(h) = 0 THEN <<>> ELSE <<ToUpperChar(h[1])>> \o Tail(h)

\* every leading '@' removed, as replace(/^@+/, '') would
stripEveryAt(h) ==
  LET solid == {i \in 1..Len(h) : h[i] # "@"}
  IN  IF solid = {} THEN <<>> ELSE SubSeq(h, SetMin(solid), Len(h))

\* xHandle.replace(/^@/, '')
stripAt(h) == IF Len(h) > 0 /\ h[1] = "@" THEN Tail(h) ELSE h

\* ------------------------------------------------------------------------
\* Recommendation synthesis: the data
\* ------------------------------------------------------------------------

\* number of locations generateLocationRecommendations aims at
TargetCount == 5

\* Toronto centre, in 1/10000 degree
DefaultCoordinates == [lat |-> 436532, lng |-> (0 - 793832)]

\* rating in tenths
DefaultRating == 40

DefaultCategory == "attraction"

MapsLink == <<"g","o","o","g","l","e",".","c","o","m","/","m","a","p","s">> (* google.com/maps *)

HttpPrefix == <<"h","t","t","p">> (* http *)

Dot == <<".">> (* . *)

\* the static catalog, without the ids (they are drawn when the catalog is built)
defaultLocations ==
  << [name |-> <<"C","N"," ","T","o","w","e","r">> (* CN Tower *),
      address |-> <<"2","9","0"," ","B","r","e","m","n","e","r"," ","B","l","v","d",","," ","T","o","r","o","n","t","o",","," ","O","N"," ","M","5","V"," ","3","L","9">> (* 290 Bremner Blvd, Toronto, ON M5V 3L9 *),
      description |-> "Toronto's iconic landmark with breathtaking views of the city.",
      category |-> "attraction",
      coordinates |-> [lat |-> 436426, lng |-> (0 - 793871)],
      rating |-> 47,
      website |-> Some(<<"h","t","t","p","s",":","/","/","w","w","w",".","c","n","t","o","w","e","r",".","c","a","/">> (* https://www.cntower.ca/ *))],
     [name |-> <<"S","t","."," ","L","a","w","r","e","n","c","e"," ","M","a","r","k","e","t">> (* St. Lawrence Market *),
      address |-> <<"9","3"," ","F","r","o","n","t"," ","S","t"," ","E",","," ","T","o","r","o","n","t","o",","," ","O","N"," ","M","5","E"," ","1","C","3">> (* 93 Front St E, Toronto, ON M5E 1C3 *),
      description |-> "Historic market with fresh food and unique vendors.",
      category |-> "shop",
      coordinates |-> [lat |-> 436489, lng |-> (0 - 793714)],
      rating |-> 46,
      website |-> Some(<<"h","t","t","p","s",":","/","/","w","w","w",".","s","t","l","a","w","r","e","n","c","e","m","a","r","k","e","t",".","c","o","m","/">> (* https://www.stlawrencemarket.com/ *))],
     [name |-> <<"H","i","g","h"," ","P","a","r","k">> (* High Park *),
      address |-> <<"1","8","7","3"," ","B","l","o","o","r"," ","S","t"," ","W",","," ","T","o","r","o","n","t","o",","," ","O","N"," ","M","6","R"," ","2","Z","3">> (* 1873 Bloor St W, Toronto, ON M6R 2Z3 *),
      description |-> "Toronto's largest public park with trails, gardens and a zoo.",
      category |-> "park",
      coordinates |-> [lat |-> 436465, lng |-> (0 - 794637)],
      rating |-> 48,
      website |-> Some(<<"h","t","t","p","s",":","/","/","w","w","w",".","t","o","r","o","n","t","o",".","c","a","/","e","x","p","l","o","r","e","-","e","n","j","o","y","/","p","a","r","k","s","-","g","a","r","d","e","n","s","-","b","e","a","c","h","e","s","/","g","a","r","d","e","n","s","-","a","n","d","-","h","o","r","t","i","c","u","l","t","u","r","e","/","g","a","r","d","e","n","s","-","a","n","d","-","p","a","r","k","s","/","h","i","g","h","-","p","a","r","k","/">> (* https://www.toronto.ca/explore-enjoy/parks-gardens-beaches/gardens-and-horticulture/gardens-and-parks/high-park/ *))],
     [name |-> <<"R","o","y","a","l"," ","O","n","t","a","r","i","o"," ","M","u","s","e","u","m">> (* Royal Ontario Museum *),
      address |-> <<"1","0","0"," ","Q","u","e","e","n","s"," ","P","a","r","k",","," ","T","o","r","o","n","t","o",","," ","O","N"," ","M","5","S"," ","2","C","6">> (* 100 Queens Park, Toronto, ON M5S 2C6 *),
      description |-> "World-class museum with art, culture & natural history.",
      category |-> "attraction",
      coordinates |-> [lat |-> 436677, lng |-> (0 - 793948)],
      rating |-> 46,
      website |-> Some(<<"h","t","t","p","s",":","/","/","w","w","w",".","r","o","m",".","o","n",".","c","a","/">> (* https://www.rom.on.ca/ *))],
     [name |-> <<"D","i","s","t","i","l","l","e","r","y"," ","D","i","s","t","r","i","c","t">> (* Distillery District *),
      address |-> <<"5","5"," ","M","i","l","l"," ","S","t",","," ","T","o","r","o","n","t","o",","," ","O","N"," ","M","5","A"," ","3","C","4">> (* 55 Mill St, Toronto, ON M5A 3C4 *),
      description |-> "Historic district with shops, restaurants and galleries.",
      category |-> "entertainment",
      coordinates |-> [lat |-> 436503, lng |-> (0 - 793596)],
      rating |-> 45,
      website |-> Some(<<"h","t","t","p","s",":","/","/","w","w","w",".","t","h","e","d","i","s","t","i","l","l","e","r","y","d","i","s","t","r","i","c","t",".","c","o","m","/">> (* https://www.thedistillerydistrict.com/ *))] >>

\* A candidate location as the generator may return it.  Every field may be
\* missing; name, address and website are JavaScript strings.
Cand(n, a, c, w) ==
  [name |-> n, address |-> a, description |-> "d", category |-> None,
   coordinates |-> c, rating |-> None, website |-> w]

\* The candidates the generator answers with, in one master order.  It holds
\* distinct places, a place repeated under another spelling of its name, a
\* place repeated at the address of another one, a place of the static
\* catalog, and a candidate without a name.
CandidatePool ==
  << Cand(Some(<<"K","e","n","s","i","n","g","t","o","n"," ","M","a","r","k","e","t">> (* Kensington Market *)), Some(<<"K","e","n","s","i","n","g","t","o","n"," ","A","v","e",","," ","T","o","r","o","n","t","o">> (* Kensington Ave, Toronto *)),
          Some([lat |-> 436545, lng |-> (0 - 794006)]),
          Some(<<"h","t","t","p","s",":","/","/","w","w","w",".","k","e","n","s","i","n","g","t","o","n","-","m","a","r","k","e","t",".","c","a","/">> (* https://www.kensington-market.ca/ *))),
     Cand(Some(<<" ","k","e","n","s","i","n","g","t","o","n"," ","m","a","r","k","e","t"," ">> (*  kensington market  *)), Some(<<"B","a","l","d","w","i","n"," ","S","t",","," ","T","o","r","o","n","t","o">> (* Baldwin St, Toronto *)),
          None, Some(<<"h","t","t","p","s",":","/","/","w","w","w",".","g","o","o","g","l","e",".","c","o","m","/","m","a","p","s","/","p","l","a","c","e","/","K","e","n","s","i","n","g","t","o","n">> (* https://www.google.com/maps/place/Kensington *))),
     Cand(Some(<<"C","a","s","a"," ","L","o","m","a">> (* Casa Loma *)), Some(<<"1"," ","A","u","s","t","i","n"," ","T","e","r","r","a","c","e",","," ","T","o","r","o","n","t","o">> (* 1 Austin Terrace, Toronto *)),
          Some([lat |-> 407128, lng |-> (0 - 740060)]), Some(<<"c","a","s","a","l","o","m","a",".","c","a">> (* casaloma.ca *))),
     Cand(Some(<<"C","a","s","t","l","e"," ","C","a","f","e">> (* Castle Cafe *)), Some(<<"1"," ","A","U","S","T","I","N"," ","T","E","R","R","A","C","E",","," ","T","O","R","O","N","T","O"," ">> (* 1 AUSTIN TERRACE, TORONTO  *)),
          None, None),
     Cand(Some(<<"C","N"," ","T","o","w","e","r">> (* CN Tower *)), Some(<<"2","9","0"," ","B","r","e","m","n","e","r"," ","B","l","v","d",","," ","T","o","r","o","n","t","o",","," ","O","N"," ","M","5","V"," ","3","L","9">> (* 290 Bremner Blvd, Toronto, ON M5V 3L9 *)),
          Some([lat |-> 436426, lng |-> (0 - 793871)]), Some(<<"h","t","t","p","s",":","/","/","l","o","c","a","l","h","o","s","t">> (* https://localhost *))),
     Cand(Some(<<"T","r","i","n","i","t","y"," ","B","e","l","l","w","o","o","d","s"," ","P","a","r","k">> (* Trinity Bellwoods Park *)), Some(<<"7","9","0"," ","Q","u","e","e","n"," ","S","t"," ","W",","," ","T","o","r","o","n","t","o">> (* 790 Queen St W, Toronto *)),
          None, Some(<<>>)),
     Cand(Some(<<"A","r","t"," ","G","a","l","l","e","r","y"," ","o","f"," ","O","n","t","a","r","i","o">> (* Art Gallery of Ontario *)), Some(<<"3","1","7"," ","D","u","n","d","a","s"," ","S","t"," ","W",","," ","T","o","r","o","n","t","o">> (* 317 Dundas St W, Toronto *)),
          None, None),
     Cand(Some(<<"B","a","r"," ","R","a","v","a","l">> (* Bar Raval *)), Some(<<"5","0","5"," ","C","o","l","l","e","g","e"," ","S","t",","," ","T","o","r","o","n","t","o">> (* 505 College St, Toronto *)),
          None, None),
     Cand(Some(<<"E","v","e","r","g","r","e","e","n"," ","B","r","i","c","k"," ","W","o","r","k","s">> (* Evergreen Brick Works *)), Some(<<"5","5","0"," ","B","a","y","v","i","e","w"," ","A","v","e",","," ","T","o","r","o","n","t","o">> (* 550 Bayview Ave, Toronto *)),
          None, None),
     Cand(None, Some(<<"1"," ","N","o","w","h","e","r","e"," ","R","d",","," ","T","o","r","o","n","t","o">> (* 1 Nowhere Rd, Toronto *)), None, None) >>

\* the candidates at positions from, from+1, ..., from+n-1 of the pool
PoolSlice(from, n) ==
  [i \in 1..n |-> CandidatePool[((from + i - 2) % Len(CandidatePool)) + 1]]

\* where the lists of a response start in the pool
SliceStarts == {1, 3, 5, 6, 10}

ItemLists ==
  {PoolSlice(from, n) : from \in SliceStarts, n \in 0..MaxRespLen}

\* the lists tried under the less usual JSON shapes
FewItemLists == {PoolSlice(1, n) : n \in {0, 2, MaxRespLen}}

\* What one chat.completions.create call of the recommendation adapter can
\* come back with: a rejected promise (timeout or another error), a message
\* without content, content that is not JSON, or JSON of one of the shapes
\* the adapter probes for.
GenKindsWithoutItems ==
  {"throw_timeout", "throw_error", "no_content", "bad_json", "no_array"}

GenResponses ==
  [kind : {"array"}, items : ItemLists]
    \cup [kind : {"locations_prop", "other_array_prop"}, items : FewItemLists]
    \cup [kind : GenKindsWithoutItems, items : {<<>>}]

\* ------------------------------------------------------------------------
\* State
\* ------------------------------------------------------------------------

VARIABLES
  openaiApiKey,     \* OpenAIClient.apiKey is set
  locPc,            \* position of the POST /api/locations request
  locPersona,       \* the persona of the request body
  locationData,     \* candidates collected from the first two calls
  uniqueLocations,  \* accepted candidates, in acceptance order
  seenNames,        \* normalized names of the accepted candidates
  seenAddresses,    \* normalized addresses of the accepted candidates
  genCalls,         \* the generation calls issued so far, in order
  genAnswers,       \* what those calls answered, in order
  locOutcome,       \* how generateLocationRecommendations ended
  locResponse       \* the response of POST /api/locations

locVars ==
  <<openaiApiKey, locPc, locPersona, locationData, uniqueLocations,
    seenNames, seenAddresses, genCalls, genAnswers, locOutcome, locResponse>>

\* ------------------------------------------------------------------------
\* Recommendation synthesis: generateLocationRecommendations
\* ------------------------------------------------------------------------

\* content without a list read as an empty list
parseInitialEmptyOk(r) ==
  CASE r.kind = "array" -> [found |-> TRUE, data |-> r.items]
    [] r.kind = "locations_prop" -> [found |-> TRUE, data |-> r.items]
    [] r.kind = "other_array_prop" /\ Len(r.items) > 0 ->
         [found |-> TRUE, data |-> r.items]
    [] OTHER -> [found |-> TRUE, data |-> <<>>]

\* The array the first call's parsed content is read as; <<>> with found
\* FALSE is the 'Invalid location data format returned' error.
parseInitial(r) ==
  CASE r.kind = "array" -> [found |-> TRUE, data |-> r.items]
    [] r.kind = "locations_prop" -> [found |-> TRUE, data |-> r.items]
    [] r.kind = "other_array_prop" /\ Len(r.items) > 0 ->
         [found |-> TRUE, data |-> r.items]
    [] OTHER -> [found |-> FALSE, data |-> <<>>]

\* additionalLocations of the second call: only the two regular shapes
parseAdditional(r) ==
  CASE r.kind = "array" -> r.items
    [] r.kind = "locations_prop" -> r.items
    [] OTHER -> <<>>

\* finalLocations of the last call: the regular shapes or any non-empty array
parseFinal(r) ==
  CASE r.kind = "array" -> r.items
    [] r.kind = "locations_prop" -> r.items
    [] r.kind = "other_array_prop" /\ Len(r.items) > 0 -> r.items
    [] OTHER -> <<>>

normalize(s) == trim(toLowerCase(s))

\* location.name.toLowerCase() or location.address.toLowerCase() throws
Unreadable(location) == ~IsSome(location.name) \/ ~IsSome(location.address)

\* the deduplication loop over locationData
RECURSIVE DedupeLoop(_, _, _, _, _)
DedupeLoop(data, i, uniq, names, addrs) ==
  IF i > Len(data)
  THEN [ok |-> TRUE, unique |-> uniq, names |-> names, addresses |-> addrs]
  ELSE
    LET location == data[i] IN
    IF Unreadable(location)
    THEN [ok |-> FALSE, unique |-> uniq, names |-> names, addresses |-> addrs]
    ELSE
      LET normalizedName == normalize(Val(location.name))
          normalizedAddress == normalize(Val(location.address))
      IN  IF normalizedName \in names \/ normalizedAddress \in addrs
          THEN DedupeLoop(data, i + 1, uniq, names, addrs)
          ELSE
            LET grown == Append(uniq, location) IN
            IF Len(grown) >= TargetCount
            THEN [ok |-> TRUE, unique |-> grown,
                  names |-> names \cup {normalizedName},
                  addresses |-> addrs \cup {normalizedAddress}]
            ELSE DedupeLoop(data, i + 1, grown,
                            names \cup {normalizedName},
                            addrs \cup {normalizedAddress})

\* no candidate dropped: the first five are taken as they come
dedupeKeepAll(data) ==
  LET taken == SubSeq(data, 1, IF Len(data) < TargetCount THEN Len(data)
                               ELSE TargetCount)
  IN  IF \E i \in 1..Len(taken) : Unreadable(taken[i])
      THEN [ok |-> FALSE, unique |-> <<>>, names |-> {}, addresses |-> {}]
      ELSE [ok |-> TRUE, unique |-> taken,
            names |-> {normalize(Val(taken[i].name)) : i \in 1..Len(taken)},
            addresses |->
              {normalize(Val(taken[i].address)) : i \in 1..Len(taken)}]

\* the deduplication of locationData, from empty seen sets
dedupe(data) == DedupeLoop(data, 1, <<>>, {}, {})

\* the loop that adds the last call's candidates to uniqueLocations
RECURSIVE FinalLoop(_, _, _, _, _)
FinalLoop(data, i, uniq, names, addrs) ==
  IF i > Len(data)
  THEN [ok |-> TRUE, unique |-> uniq, names |-> names, addresses |-> addrs]
  ELSE
    LET location == data[i] IN
    IF Unreadable(location)
    THEN [ok |-> FALSE, unique |-> uniq, names |-> names, addresses |-> addrs]
    ELSE
      LET normalizedName == normalize(Val(location.name))
          normalizedAddress == normalize(Val(location.address))
      IN  IF normalizedName \notin names /\ normalizedAddress \notin addrs
          THEN
            LET grown == Append(uniq, location) IN
            IF Len(grown) >= TargetCount
            THEN [ok |-> TRUE, unique |-> grown,
                  names |-> names \cup {normalizedName},
                  addresses |-> addrs \cup {normalizedAddress}]
            ELSE FinalLoop(data, i + 1, grown,
                           names \cup {normalizedName},
                           addrs \cup {normalizedAddress})
          ELSE FinalLoop(data, i + 1, uniq, names, addrs)

\* the website of a returned location
filterWebsite(website) ==
  IF IsSome(website) /\ Len(Val(website)) > 0
       /\ (\/ includes(Val(website), MapsLink)
           \/ ~startsWith(Val(website), HttpPrefix)
           \/ ~includes(Val(website), Dot))
  THEN None
  ELSE website

\* location.category || 'attraction'
orCategory(category) ==
  IF IsSome(category) /\ Val(category) # "" THEN Val(category) ELSE DefaultCategory

\* location.coordinates || { lat: 43.6532, lng: -79.3832 }
orCoordinates(coordinates) ==
  IF IsSome(coordinates) THEN Val(coordinates) ELSE DefaultCoordinates

\* location.rating || 4.0
orRating(rating) ==
  IF IsSome(rating) /\ Val(rating) # 0 THEN Val(rating) ELSE DefaultRating

\* one candidate in the Location format; ids stand for the fresh uuids
toLocation(location, id) ==
  [id |-> id,
   name |-> Val(location.name),
   address |-> Val(location.address),
   description |-> location.description,
   category |-> orCategory(location.category),
   coordinates |-> orCoordinates(location.coordinates),
   rating |-> orRating(location.rating),
   website |-> filterWebsite(location.website)]

SeqMin(a, b) == IF a <= b THEN a ELSE b

\* the accepted candidates converted in reverse order
convertReversed(uniq) ==
  [i \in 1..SeqMin(Len(uniq), TargetCount) |->
     toLocation(uniq[SeqMin(Len(uniq), TargetCount) + 1 - i], i)]

\* uniqueLocations.slice(0, 5).map(...)
convert(uniq) ==
  [i \in 1..SeqMin(Len(uniq), TargetCount) |-> toLocation(uniq[i], i)]

withId(entry, id) ==
  [id |-> id, name |-> entry.name, address |-> entry.address,
   description |-> entry.description, category |-> entry.category,
   coordinates |-> entry.coordinates, rating |-> entry.rating,
   website |-> entry.website]

\* the fill loop stopping one entry early
fillCountShort(n) ==
  IF n < TargetCount - 1
  THEN SeqMin(Len(defaultLocations), TargetCount - 1 - n)
  ELSE 0

\* how many catalog entries the fill loop pushes onto a list of length n
fillCount(n) ==
  IF n < TargetCount THEN SeqMin(Len(defaultLocations), TargetCount - n) ELSE 0

\* the list after the static catalog filled it up
backfill(locations) ==
  locations \o
    [i \in 1..fillCount(Len(locations)) |->
       withId(defaultLocations[i], Len(locations) + i)]

TimedOutMessage == "Request timed out. Please try again later."

LocationsFailedMessage == "Failed to generate location recommendations"

NoOutcome == [kind |-> "none", locations |-> <<>>, message |-> ""]

NoResponse ==
  [status |-> 0, success |-> FALSE, error |-> "", locations |-> None]

ServerError(msg) ==
  [status |-> 500, success |-> FALSE, error |-> msg, locations |-> None]

LocationsErrorText ==
  "Failed to find recommended locations. Please try again later."

NoPersonaText == "Invalid request. Please provide a persona."

NoLocationsText ==
  "No suitable locations found. Please try a different X profile."

\* the route's answer to a list the adapter returned
routeReturn(locations) ==
  IF Len(locations) = 0
  THEN [status |-> 404, success |-> FALSE, error |-> NoLocationsText,
        locations |-> None]
  ELSE [status |-> 200, success |-> TRUE, error |-> "",
        locations |-> Some(locations)]

\* the locations held so far filled up and returned instead of the error
ThrowBackfilled(timeout) ==
  /\ locOutcome' =
       [kind |-> "returned", locations |-> backfill(convert(uniqueLocations)),
        message |-> ""]
  /\ locResponse' = routeReturn(backfill(convert(uniqueLocations)))
  /\ locPc' = "done"

\* the adapter's catch block, followed by the route's catch block
Throw(timeout) ==
  /\ locOutcome' =
       [kind |-> "threw", locations |-> <<>>,
        message |-> IF timeout THEN TimedOutMessage ELSE LocationsFailedMessage]
  /\ locResponse' = ServerError(LocationsErrorText)
  /\ locPc' = "done"

\* conversion, fill-up and return, followed by the route's answer
Return(uniq) ==
  LET locations == backfill(convert(uniq)) IN
  /\ locOutcome' = [kind |-> "returned", locations |-> locations, message |-> ""]
  /\ locResponse' = routeReturn(locations)
  /\ locPc' = "done"

\* no name listed
namesOfNone(data) == <<>>

\* locationData.map(loc => loc.name)
namesOf(data) == [i \in 1..Len(data) |-> data[i].name]

nameAtAddressOf(data) ==
  [i \in 1..Len(data) |-> <<data[i].name, data[i].address>>]

\* deduplication of locationData and what follows it: the last call is
\* issued, or the list is returned
DedupeAndGoOn(data) ==
  LET d == dedupe(data) IN
  /\ locationData' = data
  /\ IF ~d.ok
     THEN /\ Throw(FALSE)
          /\ UNCHANGED <<uniqueLocations, seenNames, seenAddresses, genCalls>>
     ELSE /\ uniqueLocations' = d.unique
          /\ seenNames' = d.names
          /\ seenAddresses' = d.addresses
          /\ IF Len(d.unique) < TargetCount
             THEN /\ genCalls' = Append(genCalls,
                        [call |-> "final",
                         asked |-> TargetCount - Len(d.unique),
                         exclusions |-> nameAtAddressOf(d.unique)])
                  /\ locPc' = "final"
                  /\ UNCHANGED <<locOutcome, locResponse>>
             ELSE /\ Return(d.unique)
                  /\ UNCHANGED genCalls

\* ------------------------------------------------------------------------
\* POST /api/locations
\* ------------------------------------------------------------------------

PersonaOf(traits, interests) ==
  [name |-> "Ada", bio |-> "b", traits |-> traits, interests |-> interests]

\* Request bodies: not JSON, JSON without a persona, and personas with
\* traits and interests that are lists, empty lists or missing.
LocationBodies ==
  {[json |-> FALSE, persona |-> None], [json |-> TRUE, persona |-> None]}
    \cup {[json |-> TRUE, persona |-> Some(PersonaOf(t, n))] :
            t \in {None, Some(<<>>), Some(<<"curious">>)},
            n \in {None, Some(<<>>), Some(<<"coffee">>)}}

LocationsRequest(body) ==
  /\ locPc = "idle"
  /\ locPersona' = body.persona
  /\ UNCHANGED <<openaiApiKey, locationData, uniqueLocations, seenNames,
                 seenAddresses, genAnswers>>
  /\ IF ~body.json
     THEN \* request.json() rejects: the route's catch block
          /\ locResponse' = ServerError(LocationsErrorText)
          /\ locPc' = "done"
          /\ UNCHANGED <<genCalls, locOutcome>>
     ELSE IF ~IsSome(body.persona)
     THEN /\ locResponse' =
               [status |-> 400, success |-> FALSE, error |-> NoPersonaText,
                locations |-> None]
          /\ locPc' = "done"
          /\ UNCHANGED <<genCalls, locOutcome>>
     ELSE IF \/ ~openaiApiKey
             \/ ~IsSome(Val(body.persona).traits)
             \/ ~IsSome(Val(body.persona).interests)
     THEN \* initializeClient() or the prompt's join() throws before the
          \* try block: the error reaches the route unchanged
          /\ locOutcome' =
               [kind |-> "threw", locations |-> <<>>,
                message |-> IF ~openaiApiKey THEN "OpenAI API key is required"
                            ELSE "TypeError"]
          /\ locResponse' = ServerError(LocationsErrorText)
          /\ locPc' = "done"
          /\ UNCHANGED genCalls
     ELSE /\ genCalls' = Append(genCalls,
                [call |-> "initial", asked |-> TargetCount, exclusions |-> <<>>])
          /\ locPc' = "initial"
          /\ UNCHANGED <<locOutcome, locResponse>>

\* the first call answers
InitialResponse(r) ==
  /\ locPc = "initial"
  /\ genAnswers' = Append(genAnswers, r)
  /\ UNCHANGED <<openaiApiKey, locPersona>>
  /\ IF r.kind \in {"throw_timeout", "throw_error", "no_content", "bad_json"}
          \/ ~parseInitial(r).found
     THEN /\ Throw(r.kind = "throw_timeout")
          /\ UNCHANGED <<locationData, uniqueLocations, seenNames,
                         seenAddresses, genCalls>>
     ELSE LET data == parseInitial(r).data IN
          IF Len(data) < TargetCount
          THEN /\ locationData' = data
               /\ genCalls' = Append(genCalls,
                     [call |-> "additional",
                      asked |-> TargetCount - Len(data),
                      exclusions |-> namesOf(data)])
               /\ locPc' = "additional"
               /\ UNCHANGED <<uniqueLocations, seenNames, seenAddresses,
                              locOutcome, locResponse>>
          ELSE DedupeAndGoOn(data)

\* the call for the missing locations answers
AdditionalResponse(r) ==
  /\ locPc = "additional"
  /\ genAnswers' = Append(genAnswers, r)
  /\ UNCHANGED <<openaiApiKey, locPersona>>
  /\ IF r.kind \in {"throw_timeout", "throw_error", "bad_json"}
     THEN /\ Throw(r.kind = "throw_timeout")
          /\ UNCHANGED <<locationData, uniqueLocations, seenNames,
                         seenAddresses, genCalls>>
     ELSE IF r.kind = "no_content"
     THEN DedupeAndGoOn(locationData)
     ELSE DedupeAndGoOn(locationData \o parseAdditional(r))

\* the last call answers
FinalResponse(r) ==
  /\ locPc = "final"
  /\ genAnswers' = Append(genAnswers, r)
  /\ UNCHANGED <<openaiApiKey, locPersona, locationData, genCalls>>
  /\ IF r.kind \in {"throw_timeout", "throw_error", "bad_json"}
     THEN /\ Throw(r.kind = "throw_timeout")
          /\ UNCHANGED <<uniqueLocations, seenNames, seenAddresses>>
     ELSE IF r.kind = "no_content"
     THEN /\ Return(uniqueLocations)
          /\ UNCHANGED <<uniqueLocations, seenNames, seenAddresses>>
     ELSE LET f == FinalLoop(parseFinal(r), 1, uniqueLocations,
                             seenNames, seenAddresses)
          IN  /\ uniqueLocations' = f.unique
              /\ seenNames' = f.names
              /\ seenAddresses' = f.addresses
              /\ IF f.ok THEN Return(f.unique) ELSE Throw(FALSE)

\* ------------------------------------------------------------------------
\* Search collaborator: the data
\* ------------------------------------------------------------------------

\* number of entries of searchStrategies
StrategyCount == 4

\* result.text.length > 50 makes a record count as having content
MinTextLength == 50

\* at most this many profile URLs are sent to the contents API
MaxEnrichUrls == 5

\* Array.from(tweetTexts).slice(0, 20)
TweetCap == 20

Placeholder == <<"U","n","k","n","o","w","n"," ","U","s","e","r">> (* Unknown User *)

AtSign == <<"@">> (* @ *)

FromColon == <<"f","r","o","m",":">> (* from: *)

Slash == <<"/">> (* / *)

XcomSlash == <<"x",".","c","o","m","/">> (* x.com/ *)

TwitterComSlash == <<"t","w","i","t","t","e","r",".","c","o","m","/">> (* twitter.com/ *)

StatusSegment == <<"/","s","t","a","t","u","s","/">> (* /status/ *)

PipeX == <<"|"," ","X">> (* | X *)

FormerlyTwitter == <<"X"," ","(","f","o","r","m","e","r","l","y"," ","T","w","i","t","t","e","r",")">> (* X (formerly Twitter) *)

HomeX == <<"H","o","m","e"," ","/"," ","X">> (* Home / X *)

TwitterCom == <<"t","w","i","t","t","e","r",".","c","o","m">> (* twitter.com *)

Followers == <<"F","o","l","l","o","w","e","r","s">> (* Followers *)

Following == <<"F","o","l","l","o","w","i","n","g">> (* Following *)

Posts == <<"P","o","s","t","s">> (* Posts *)

\* the characters result.text is split at: line feed, bullet, em dash, en
\* dash; the three typographic characters are written as tokens
LineSeparators == {"\n", "&bull;", "&mdash;", "&ndash;"}

\* the characters that end the leading name of a title
NameStops == {"(", "@", "|"}

Result(url, title, text, highlights) ==
  [url |-> url, title |-> title, text |-> text, highlights |-> highlights]

\* a profile page without text: relevant to bob by its url
ProfilePage ==
  Result(Some(<<"h","t","t","p","s",":","/","/","x",".","c","o","m","/","b","o","b">> (* https://x.com/bob *)), Some(<<"B","o","b"," ","S","m","i","t","h"," ","(","@","b","o","b",")"," ","/"," ","X">> (* Bob Smith (@bob) / X *)), None, None)

\* a profile page whose title gives neither a tweet nor a name
BareProfile ==
  Result(Some(<<"h","t","t","p","s",":","/","/","t","w","i","t","t","e","r",".","c","o","m","/","B","o","b">> (* https://twitter.com/Bob *)), Some(<<"|"," ","X">> (* | X *)), Some(<<>>), Some(<<>>))

\* a single post mentioning bob: relevant by its text, which is content
StatusPage ==
  Result(Some(<<"h","t","t","p","s",":","/","/","x",".","c","o","m","/","a","l","i","c","e","/","s","t","a","t","u","s","/","1">> (* https://x.com/alice/status/1 *)), Some(<<"A","l","i","c","e"," ","o","n"," ","X">> (* Alice on X *)),
         Some(<<"@","b","o","b"," ","g","r","e","a","t"," ","t","a","l","k"," ","a","b","o","u","t"," ","m","a","p","s"," ","a","n","d"," ","c","o","f","f","e","e"," ","i","n"," ","T","o","r","o","n","t","o"," ","t","o","d","a","y","\n","F","o","l","l","o","w","e","r","s"," ","1","2","&bull;","f","r","o","m",":","b","o","b"," ","s","e","e"," ","y","o","u"," ","a","t"," ","t","h","e"," ","m","a","r","k","e","t"," ","o","n"," ","S","u","n","d","a","y">> (* @bob great talk about maps and coffee in Toronto today\nFollowers 12&bull;from:bob see you at the market on Sunday *)),
         None)

\* a page with highlights
HighlightPage ==
  Result(Some(<<"h","t","t","p","s",":","/","/","n","e","w","s",".","e","x","a","m","p","l","e","/","b">> (* https://news.example/b *)), Some(<<"H","o","m","e"," ","/"," ","X">> (* Home / X *)), None,
         Some(<< <<" ","B","o","b"," ","m","a","p","s"," ","t","h","e"," ","c","i","t","y"," ">> (*  Bob maps the city  *), <<"s","h","o","r","t">> (* short *), <<"B","o","b"," ","m","a","p","s"," ","t","h","e"," ","c","i","t","y">> (* Bob maps the city *) >>))

\* a page about somebody else
OtherPage ==
  Result(Some(<<"h","t","t","p","s",":","/","/","x",".","c","o","m","/","c","a","r","o","l">> (* https://x.com/carol *)), Some(<<"C","a","r","o","l"," ","(","@","c","a","r","o","l",")"," ","/"," ","X">> (* Carol (@carol) / X *)),
         Some(<<"C","a","r","o","l"," ","p","a","i","n","t","s"," ","d","o","o","r","s">> (* Carol paints doors *)), None)

\* a record without url and title
EmptyRecord == Result(None, None, None, None)

\* a page for the handle 'unknown User'; its title starts with a stop
\* character, so it gives no name
UnknownPage ==
  Result(Some(<<"h","t","t","p","s",":","/","/","x",".","c","o","m","/","u","1">> (* https://x.com/u1 *)), Some(<<"(","@","u","n","k","n","o","w","n"," ","U","s","e","r",")"," ","o","n"," ","m","a","p","s">> (* (@unknown User) on maps *)), None, None)

\* a page for the handle 'unknown User' whose title names the user
NamedUnknownPage ==
  Result(Some(<<"h","t","t","p","s",":","/","/","x",".","c","o","m","/","u","2">> (* https://x.com/u2 *)), Some(<<"U","n","a"," ","K","n","o","w","n"," ","|"," ","u","n","k","n","o","w","n"," ","u","s","e","r">> (* Una Known | unknown user *)), None, None)

\* the result lists a search call answers with
ResultLists ==
  { <<>>,
    <<OtherPage>>,
    <<EmptyRecord, OtherPage>>,
    <<ProfilePage>>,
    <<OtherPage, ProfilePage, StatusPage>>,
    <<BareProfile>>,
    <<HighlightPage, BareProfile>>,
    <<StatusPage, OtherPage>>,
    <<UnknownPage>>,
    <<NamedUnknownPage, UnknownPage>> }

\* What an axios.post to the search API comes back with: a rejected promise
\* (timeout, connection failure, or an HTTP status outside 2xx), or a
\* response whose data has results or has none.
SearchErrorKinds == {"timeout", "network", "http401", "http429", "http500"}

SearchResponses ==
  [kind : SearchErrorKinds, results : {<<>>}]
    \cup [kind : {"no_data"}, results : {<<>>}]
    \cup [kind : {"ok"}, results : ResultLists]

\* the fields of the axios error the catch blocks read: code, response
\* status (0 without a response), whether message contains 'timeout',
\* message, and response.data.message ("" when absent)
AxiosError(code, status, hasTimeoutText, message, dataMessage) ==
  [code |-> code, status |-> status, hasTimeoutText |-> hasTimeoutText,
   message |-> message, dataMessage |-> dataMessage]

errorOf(kind) ==
  CASE kind = "timeout" ->
         AxiosError("ECONNABORTED", 0, TRUE, "timeout of 30000ms exceeded", "")
    [] kind = "network" ->
         AxiosError("ERR_NETWORK", 0, FALSE, "Network Error", "")
    [] kind = "http401" ->
         AxiosError("ERR_BAD_REQUEST", 401, FALSE,
                    "Request failed with status code 401", "Invalid API key")
    [] kind = "http429" ->
         AxiosError("ERR_BAD_REQUEST", 429, FALSE,
                    "Request failed with status code 429", "")
    [] kind = "http500" ->
         AxiosError("ERR_BAD_RESPONSE", 500, FALSE,
                    "Request failed with status code 500", "Internal error")

NoError == AxiosError("", 0, FALSE, "", "")

ExaKeyError == AxiosError("", 0, FALSE, "Exa API key is required", "")

AllFailedMessage == "All search strategies failed to find relevant content"

AllFailedError == AxiosError("", 0, FALSE, AllFailedMessage, "")

\* What the contents API comes back with.
Content(url, text, highlights) ==
  [url |-> url, text |-> text, highlights |-> highlights]

ContentLists ==
  { <<>>,
    << Content(Some(<<"h","t","t","p","s",":","/","/","x",".","c","o","m","/","b","o","b">> (* https://x.com/bob *)),
               Some(<<"B","o","b"," ","S","m","i","t","h"," ","m","a","p","s"," ","e","v","e","r","y"," ","s","t","r","e","e","t"," ","o","f"," ","T","o","r","o","n","t","o"," ","a","n","d"," ","d","r","i","n","k","s"," ","c","o","f","f","e","e">> (* Bob Smith maps every street of Toronto and drinks coffee *)),
               Some(<<<<"M","a","p","p","i","n","g"," ","T","o","r","o","n","t","o"," ","s","i","n","c","e"," ","2","0","1","0">> (* Mapping Toronto since 2010 *)>>)) >>,
    << Content(Some(<<"h","t","t","p","s",":","/","/","x",".","c","o","m","/","b","o","b">> (* https://x.com/bob *)), Some(<<>>), Some(<<>>)),
       Content(Some(<<"h","t","t","p","s",":","/","/","t","w","i","t","t","e","r",".","c","o","m","/","B","o","b">> (* https://twitter.com/Bob *)), None, None) >>,
    << Content(Some(<<"h","t","t","p","s",":","/","/","x",".","c","o","m","/","z","e","d">> (* https://x.com/zed *)), Some(<<"Z","e","d"," ","w","r","i","t","e","s"," ","a","b","o","u","t"," ","t","r","a","i","n","s">> (* Zed writes about trains *)),
               None) >> }

EnrichResponses ==
  [kind : {"throw", "no_data"}, results : {<<>>}]
    \cup [kind : {"ok"}, results : ContentLists]

\* ------------------------------------------------------------------------
\* Search collaborator: the pure parts
\* ------------------------------------------------------------------------

\* filterRelevantResults: the test of one record
isRelevant(result, handle) ==
  LET lowerHandle == toLowerCase(handle)
      urlMatch ==
        /\ IsSome(result.url)
        /\ LET u == toLowerCase(Val(result.url)) IN
             \/ includes(u, lowerHandle)
             \/ includes(u, Slash \o lowerHandle)
             \/ includes(u, AtSign \o lowerHandle)
      titleMatch ==
        /\ IsSome(result.title)
        /\ LET t == toLowerCase(Val(result.title)) IN
             \/ includes(t, AtSign \o lowerHandle)
             \/ includes(t, lowerHandle)
      textMatch ==
        /\ IsSome(result.text)
        /\ LET x == toLowerCase(Val(result.text)) IN
             \/ includes(x, AtSign \o lowerHandle)
             \/ includes(x, FromColon \o lowerHandle)
      highlightMatch ==
        /\ IsSome(result.highlights)
        /\ \E k \in 1..Len(Val(result.highlights)) :
             LET h == toLowerCase(Val(result.highlights)[k]) IN
               \/ includes(h, AtSign \o lowerHandle)
               \/ includes(h, lowerHandle)
  IN  urlMatch \/ titleMatch \/ textMatch \/ highlightMatch

filterRelevantResults(results, handle) ==
  LET Keep(result) == isRelevant(result, handle)
  IN  SelectSeq(results, Keep)

\* highlights not counted as content
hasContentTextOnly(results) ==
  \E k \in 1..Len(results) :
    IsSome(results[k].text) /\ Len(Val(results[k].text)) > MinTextLength

\* some record has text longer than 50 characters or has highlights
hasContent(results) ==
  \E k \in 1..Len(results) :
    \/ IsSome(results[k].text) /\ Len(Val(results[k].text)) > MinTextLength
    \/ IsSome(results[k].highlights) /\ Len(Val(results[k].highlights)) > 0

\* the urls enrichResultsWithContent asks the contents API for
twitterUrls(results) ==
  LET Profile(result) ==
        /\ IsSome(result.url) /\ Len(Val(result.url)) > 0
        /\ \/ includes(Val(result.url), XcomSlash)
           \/ includes(Val(result.url), TwitterComSlash)
        /\ ~includes(Val(result.url), StatusSegment)
      found == SelectSeq(results, Profile)
  IN  [k \in 1..SeqMin(Len(found), MaxEnrichUrls) |-> Val(found[k].url)]

\* enrichedResult.text || originalResult.text
orText(fetched, original) ==
  IF IsSome(fetched) /\ Len(Val(fetched)) > 0 THEN fetched ELSE original

\* enrichedResult.highlights || originalResult.highlights: an array, even an
\* empty one, is truthy
orHighlights(fetched, original) ==
  IF IsSome(fetched) THEN fetched ELSE original

\* the merge of the fetched contents into the records, by url
mergeContent(results, contents) ==
  [k \in 1..Len(results) |->
     LET originalResult == results[k]
         hits == {j \in 1..Len(contents) : contents[j].url = originalResult.url}
     IN  IF hits = {}
         THEN originalResult
         ELSE LET enrichedResult == contents[SetMin(hits)] IN
              [originalResult EXCEPT
                 !.text = orText(enrichedResult.text, originalResult.text),
                 !.highlights = orHighlights(enrichedResult.highlights,
                                             originalResult.highlights)]]

\* ------------------------------------------------------------------------
\* Text extraction: extractProfileInfo (tweets, name and handle; the bio and
\* the profile image are computed from the same records and read by no
\* other part of the model)
\* ------------------------------------------------------------------------

\* result.text.split(/\n|bullet|em dash|en dash/)
splitLines(s) ==
  LET seps == {i \in 1..Len(s) : s[i] \in LineSeparators}
      starts == {1} \cup {i + 1 : i \in seps}
      startOf(k) ==
        CHOOSE a \in starts : Cardinality({b \in starts : b < a}) = k - 1
      endOf(a) ==
        IF \E i \in seps : i >= a
        THEN SetMin({i \in seps : i >= a}) - 1
        ELSE Len(s)
  IN  [k \in 1..Cardinality(starts) |-> SubSeq(s, startOf(k), endOf(startOf(k)))]

titleFragments(result) ==
  IF /\ IsSome(result.title)
     /\ Len(trim(Val(result.title))) > 0
     /\ ~includes(Val(result.title), PipeX)
     /\ ~includes(Val(result.title), FormerlyTwitter)
     /\ ~includes(Val(result.title), HomeX)
     /\ Len(Val(result.title)) > 10
  THEN <<trim(Val(result.title))>>
  ELSE <<>>

highlightFragments(result) ==
  IF ~IsSome(result.highlights) THEN <<>>
  ELSE LET Usable(h) == Len(trim(h)) > 0 /\ Len(h) > 10
           kept == SelectSeq(Val(result.highlights), Usable)
       IN  [k \in 1..Len(kept) |-> trim(kept[k])]

textFragments(result) ==
  IF ~IsSome(result.text) \/ Len(Val(result.text)) = 0 THEN <<>>
  ELSE LET parts == splitLines(Val(result.text))
           lines == [k \in 1..Len(parts) |-> trim(parts[k])]
           Usable(line) ==
             /\ Len(line) > 20
             /\ Len(line) < 300
             /\ ~includes(line, Followers)
             /\ ~includes(line, Following)
             /\ ~includes(line, Posts)
       IN  SelectSeq(lines, Usable)

\* tweetTexts.add for each fragment in turn: a Set keeps insertion order
RECURSIVE addAll(_, _, _)
addAll(tweetTexts, fragments, i) ==
  IF i > Len(fragments) THEN tweetTexts
  ELSE IF \E k \in 1..Len(tweetTexts) : tweetTexts[k] = fragments[i]
       THEN addAll(tweetTexts, fragments, i + 1)
       ELSE addAll(Append(tweetTexts, fragments[i]), fragments, i + 1)

RECURSIVE collectTweets(_, _, _)
collectTweets(results, i, tweetTexts) ==
  IF i > Len(results) THEN tweetTexts
  ELSE collectTweets(results, i + 1,
         addAll(tweetTexts,
                titleFragments(results[i]) \o highlightFragments(results[i])
                  \o textFragments(results[i]),
                1))

\* every tweet found, without the slice
extractTweetsUncapped(results) == collectTweets(results, 1, <<>>)

\* Array.from(tweetTexts).slice(0, 20)
extractTweets(results) ==
  LET all == collectTweets(results, 1, <<>>)
  IN  SubSeq(all, 1, SeqMin(Len(all), TweetCap))

\* nameMatch[1].trim() of /^([^(@|]+?)(?:\s*[\(@|]|$)/, or <<>> without a match
leadingName(title) ==
  LET stops == {k \in 1..Len(title) : title[k] \in NameStops}
      segment == IF stops = {} THEN title
                 ELSE SubSeq(title, 1, SetMin(stops) - 1)
  IN  trim(segment)

RECURSIVE extractName(_, _, _)
extractName(results, i, default) ==
  IF i > Len(results) THEN default
  ELSE
    LET title == results[i].title
        extractedName == IF IsSome(title) THEN leadingName(Val(title)) ELSE <<>>
    IN  IF /\ Len(extractedName) > 0
           /\ ~includes(extractedName, FormerlyTwitter)
           /\ ~includes(extractedName, HomeX)
           /\ ~includes(extractedName, TwitterCom)
           /\ Len(extractedName) < 50
        THEN extractedName
        ELSE extractName(results, i + 1, default)

extractProfileInfo(results, requestedHandle) ==
  [tweets |-> extractTweets(results),
   name |-> extractName(results, 1, capitalize(requestedHandle)),
   handle |-> requestedHandle]


\* ------------------------------------------------------------------------
\* Text extraction applied to collections of records
\* ------------------------------------------------------------------------

VARIABLES exResults, exHandle, exInfo

exVars == <<exResults, exHandle, exInfo>>

\* the longest collection of records extractProfileInfo is applied to
MaxRecords == 2

\* a page quoting twenty-one different posts, one of them twice
ManyPage ==
  Result(Some(<<"h","t","t","p","s",":","/","/","x",".","c","o","m","/","b","o","b","/","s","t","a","t","u","s","/","9">> (* https://x.com/bob/status/9 *)), Some(<<"B","o","b"," ","S","m","i","t","h"," ","o","n"," ","X">> (* Bob Smith on X *)), None,
         Some(<<<<"P","o","s","t"," ","n","u","m","b","e","r"," ","0","1"," ","a","b","o","u","t"," ","T","o","r","o","n","t","o">> (* Post number 01 about Toronto *),
              <<"P","o","s","t"," ","n","u","m","b","e","r"," ","0","2"," ","a","b","o","u","t"," ","T","o","r","o","n","t","o">> (* Post number 02 about Toronto *),
              <<"P","o","s","t"," ","n","u","m","b","e","r"," ","0","3"," ","a","b","o","u","t"," ","T","o","r","o","n","t","o">> (* Post number 03 about Toronto *),
              <<"P","o","s","t"," ","n","u","m","b","e","r"," ","0","4"," ","a","b","o","u","t"," ","T","o","r","o","n","t","o">> (* Post number 04 about Toronto *),
              <<"P","o","s","t"," ","n","u","m","b","e","r"," ","0","3"," ","a","b","o","u","t"," ","T","o","r","o","n","t","o">> (* Post number 03 about Toronto *),
              <<"P","o","s","t"," ","n","u","m","b","e","r"," ","0","5"," ","a","b","o","u","t"," ","T","o","r","o","n","t","o">> (* Post number 05 about Toronto *),
              <<"P","o","s","t"," ","n","u","m","b","e","r"," ","0","6"," ","a","b","o","u","t"," ","T","o","r","o","n","t","o">> (* Post number 06 about Toronto *),
              <<"P","o","s","t"," ","n","u","m","b","e","r"," ","0","7"," ","a","b","o","u","t"," ","T","o","r","o","n","t","o">> (* Post number 07 about Toronto *),
              <<"P","o","s","t"," ","n","u","m","b","e","r"," ","0","8"," ","a","b","o","u","t"," ","T","o","r","o","n","t","o">> (* Post number 08 about Toronto *),
              <<"P","o","s","t"," ","n","u","m","b","e","r"," ","0","9"," ","a","b","o","u","t"," ","T","o","r","o","n","t","o">> (* Post number 09 about Toronto *),
              <<"P","o","s","t"," ","n","u","m","b","e","r"," ","1","0"," ","a","b","o","u","t"," ","T","o","r","o","n","t","o">> (* Post number 10 about Toronto *),
              <<"P","o","s","t"," ","n","u","m","b","e","r"," ","1","1"," ","a","b","o","u","t"," ","T","o","r","o","n","t","o">> (* Post number 11 about Toronto *),
              <<"P","o","s","t"," ","n","u","m","b","e","r"," ","1","2"," ","a","b","o","u","t"," ","T","o","r","o","n","t","o">> (* Post number 12 about Toronto *),
              <<"P","o","s","t"," ","n","u","m","b","e","r"," ","1","3"," ","a","b","o","u","t"," ","T","o","r","o","n","t","o">> (* Post number 13 about Toronto *),
              <<"P","o","s","t"," ","n","u","m","b","e","r"," ","1","4"," ","a","b","o","u","t"," ","T","o","r","o","n","t","o">> (* Post number 14 about Toronto *),
              <<"P","o","s","t"," ","n","u","m","b","e","r"," ","1","5"," ","a","b","o","u","t"," ","T","o","r","o","n","t","o">> (* Post number 15 about Toronto *),
              <<"P","o","s","t"," ","n","u","m","b","e","r"," ","1","6"," ","a","b","o","u","t"," ","T","o","r","o","n","t","o">> (* Post number 16 about Toronto *),
              <<"P","o","s","t"," ","n","u","m","b","e","r"," ","1","7"," ","a","b","o","u","t"," ","T","o","r","o","n","t","o">> (* Post number 17 about Toronto *),
              <<"P","o","s","t"," ","n","u","m","b","e","r"," ","1","8"," ","a","b","o","u","t"," ","T","o","r","o","n","t","o">> (* Post number 18 about Toronto *),
              <<"P","o","s","t"," ","n","u","m","b","e","r"," ","1","9"," ","a","b","o","u","t"," ","T","o","r","o","n","t","o">> (* Post number 19 about Toronto *),
              <<"P","o","s","t"," ","n","u","m","b","e","r"," ","2","0"," ","a","b","o","u","t"," ","T","o","r","o","n","t","o">> (* Post number 20 about Toronto *),
              <<"P","o","s","t"," ","n","u","m","b","e","r"," ","2","1"," ","a","b","o","u","t"," ","T","o","r","o","n","t","o">> (* Post number 21 about Toronto *)>>))

ExtractPool ==
  { ProfilePage, BareProfile, StatusPage, HighlightPage, OtherPage,
    EmptyRecord, ManyPage }

RECURSIVE RecordLists(_)
RecordLists(n) ==
  IF n = 0 THEN {<<>>}
  ELSE RecordLists(n - 1)
         \cup {Append(l, rec) : l \in {s \in RecordLists(n - 1) : Len(s) = n - 1},
                                rec \in ExtractPool}

ExtractInputs == RecordLists(MaxRecords)

NoExtraction == [tweets |-> <<>>, name |-> <<>>, handle |-> <<>>]

ExtractIdle ==
  /\ exResults = <<>>
  /\ exHandle = <<>>
  /\ exInfo = NoExtraction

\* extractProfileInfo(results, handle) is called and returns
ExtractProfile(results, handle) ==
  /\ exInfo = NoExtraction
  /\ exResults' = results
  /\ exHandle' = handle
  /\ exInfo' = extractProfileInfo(results, handle)

\* ------------------------------------------------------------------------
\* Recommendation synthesis by five concurrent calls:
\* generateLocationRecommendations, fan-out revision
\* ------------------------------------------------------------------------

VARIABLES fanPc, fanAnswers, fanArrivals, fanOutcome

fanVars == <<fanPc, fanAnswers, fanArrivals, fanOutcome>>

\* for (let i = 0; i < 5; i++)
SlotCount == 5

categories ==
  << <<"r","e","s","t","a","u","r","a","n","t">> (* restaurant *), <<"c","a","f","e">> (* cafe *), <<"e","n","t","e","r","t","a","i","n","m","e","n","t"," ","v","e","n","u","e">> (* entertainment venue *), <<"c","u","l","t","u","r","a","l"," ","a","t","t","r","a","c","t","i","o","n">> (* cultural attraction *),
     <<"o","u","t","d","o","o","r"," ","s","p","a","c","e">> (* outdoor space *) >>

NoFanObject == [name |-> None, category |-> None]

\* the objects a call's content parses to: one that names its category,
\* one that leaves it out
FanObjects ==
  { [name |-> Some(<<"B","a","r"," ","R","a","v","a","l">> (* Bar Raval *)), category |-> Some(<<"b","a","r">> (* bar *))],
    [name |-> Some(<<"H","i","g","h"," ","P","a","r","k">> (* High Park *)), category |-> None] }

NotAnswered == [kind |-> "pending", object |-> NoFanObject]

\* What one chat.completions.create call comes back with: a rejected
\* promise, a completion without content, content that JSON.parse rejects,
\* or content that parses to an object.
FanResponses ==
  [kind : {"reject", "no_content", "bad_json"}, object : {NoFanObject}]
    \cup [kind : {"ok"}, object : FanObjects]

KeyRequiredMessage == "OpenAI API key is required"

RejectedMessage == "the reason the rejected call gives"

NoLocationsMessage == "Failed to generate any location recommendations"

\* the fulfilment values in the order the calls completed
responsesByArrival(answers, arrivals) ==
  [k \in 1..SlotCount |-> answers[arrivals[k]]]

\* await Promise.all(recommendationPromises): the fulfilment values in the
\* order of the promises passed
responses(answers, arrivals) == [i \in 1..SlotCount |-> answers[i]]

\* locationData.category || categories[i]
slotCategory(category, i) ==
  IF IsSome(category) /\ Val(category) # <<>> THEN Val(category)
  ELSE categories[i]

\* the loop over responses; uuidv4() gives a fresh id, here the index of
\* the response the location was made from
RECURSIVE processResponses(_, _, _)
processResponses(resps, i, locations) ==
  IF i > Len(resps) THEN locations
  ELSE IF resps[i].kind = "ok"
       THEN processResponses(resps, i + 1,
              Append(locations,
                     [id |-> i, name |-> resps[i].object.name,
                      category |-> slotCategory(resps[i].object.category, i)]))
       ELSE processResponses(resps, i + 1, locations)

\* locations.filter((location, index, self) =>
\*   index === self.findIndex((l) => l.name === location.name))
RECURSIVE uniqueByName(_, _)
uniqueByName(locations, index) ==
  IF index > Len(locations) THEN <<>>
  ELSE IF \E j \in 1..(index - 1) : locations[j].name = locations[index].name
       THEN uniqueByName(locations, index + 1)
       ELSE <<locations[index]>> \o uniqueByName(locations, index + 1)

FanIdle ==
  /\ fanPc = "idle"
  /\ fanAnswers = [i \in 1..SlotCount |-> NotAnswered]
  /\ fanArrivals = <<>>
  /\ fanOutcome = NoOutcome

\* generateLocationRecommendations is called: the client is initialized
\* and the five calls are issued
FanOutRequest ==
  /\ fanPc = "idle"
  /\ UNCHANGED <<fanAnswers, fanArrivals>>
  /\ IF ~openaiApiKey
     THEN /\ fanOutcome' =
               [kind |-> "threw", locations |-> <<>>,
                message |-> KeyRequiredMessage]
          /\ fanPc' = "done"
     ELSE /\ fanPc' = "waiting"
          /\ UNCHANGED fanOutcome

\* the call of slot i completes; Promise.all rejects with the first
\* rejection and resolves with the last fulfilment
FanResponse(i, r) ==
  /\ fanPc = "waiting"
  /\ fanAnswers[i] = NotAnswered
  /\ fanAnswers' = [fanAnswers EXCEPT ![i] = r]
  /\ fanArrivals' = Append(fanArrivals, i)
  /\ IF r.kind = "reject"
     THEN /\ fanOutcome' =
               [kind |-> "threw", locations |-> <<>>,
                message |-> RejectedMessage]
          /\ fanPc' = "done"
     ELSE IF Len(fanArrivals') < SlotCount
     THEN UNCHANGED <<fanPc, fanOutcome>>
     ELSE \E uniqueFanLocations \in
               {uniqueByName(processResponses(responses(fanAnswers', fanArrivals'),
                                              1, <<>>), 1)} :
            /\ fanPc' = "done"
            /\ IF Len(uniqueFanLocations) = 0
               THEN fanOutcome' =
                      [kind |-> "threw", locations |-> <<>>,
                       message |-> NoLocationsMessage]
               ELSE fanOutcome' =
                      [kind |-> "returned", locations |-> uniqueFanLocations,
                       message |-> ""]

\* ------------------------------------------------------------------------
\* The page: HandleForm.handleSubmit and Home.handleSubmit
\* ------------------------------------------------------------------------

VARIABLES pagePc, formError, isLoading, pageError, pagePersona,
          pageLocations, userCoordinates, pageRequests

pageVars ==
  <<pagePc, formError, isLoading, pageError, pagePersona, pageLocations,
    userCoordinates, pageRequests>>

\* the number of submissions followed
MaxSubmits == 2

\* what the user has typed into the form
FormInputs == { <<>>, <<" ">> (*   *), <<"b","o","b">> (* bob *), <<" ","@","b","o","b"," ">> (*  @bob  *), <<"@","@","b","o","b">> (* @@bob *) }

PersonaUrl == "/api/persona"

LocationsUrl == "/api/locations"

EnterHandleText == "Please enter your X handle"

InvalidFormatText == "Invalid response format from API"

FetchFailedText == "Failed to fetch"

PersonaFallbackText == "Failed to generate persona"

LocationsFallbackText == "Failed to generate locations"

\* `API error: ${response.status}`
apiErrorText(status) == <<"API error: ", status>>

Fetched(kind, status, success, errorText, payload) ==
  [kind |-> kind, status |-> status, success |-> success,
   error |-> errorText, payload |-> payload]

InFlight == Fetched("pending", 0, FALSE, None, None)

\* What a fetch comes back with: a rejected promise, a status outside 2xx,
\* a body that is not JSON, or a JSON body with success, error and payload.
FetchOutcomes(payloads) ==
  { Fetched("reject", 0, FALSE, None, None),
    Fetched("bad_json", 200, FALSE, None, None),
    Fetched("json", 200, FALSE, None, None),
    Fetched("json", 200, FALSE, Some("Profile not found"), None),
    Fetched("json", 200, TRUE, None, None) }
    \cup {Fetched("not_ok", status, FALSE, None, None) : status \in {404, 500}}
    \cup {Fetched("json", 200, TRUE, None, Some(p)) : p \in payloads}

PersonaPayloads == {"persona of bob"}

LocationPayloads == {<<>>, <<"Bar Raval", "High Park">>}

\* only the status is looked at
thrownByStatusOnly(r, fallback) ==
  IF r.kind = "not_ok" THEN Some(apiErrorText(r.status)) ELSE None

\* the message of the error the try block throws for a response, or None
\* when it throws nothing
thrownBy(r, fallback) ==
  IF r.kind = "reject" THEN Some(FetchFailedText)
  ELSE IF r.kind = "not_ok" THEN Some(apiErrorText(r.status))
  ELSE IF r.kind = "bad_json" THEN Some(InvalidFormatText)
  ELSE IF ~r.success \/ ~IsSome(r.payload)
       THEN IF IsSome(r.error) THEN r.error ELSE Some(fallback)
  ELSE None

TorontoCentre == [lat |-> 436532, lng |-> 0 - 793832]

PageIdle ==
  /\ pagePc = "idle"
  /\ formError = None
  /\ isLoading = FALSE
  /\ pageError = None
  /\ pagePersona = None
  /\ pageLocations = <<>>
  /\ userCoordinates = None
  /\ pageRequests = <<>>

submitted ==
  Cardinality({k \in 1..Len(pageRequests) : pageRequests[k].url = PersonaUrl})

Issue(url, body) == [url |-> url, body |-> body, answer |-> InFlight]

answeredWith(requests, r) ==
  [requests EXCEPT ![Len(requests)].answer = r]

\* the catch and finally blocks
Caught(message) ==
  /\ pageError' = message
  /\ isLoading' = FALSE
  /\ pagePc' = "idle"

\* the form is submitted with the typed text; the button is disabled while
\* isLoading
Submit(typed) ==
  /\ pagePc = "idle"
  /\ ~isLoading
  /\ submitted < MaxSubmits
  /\ IF Len(trim(typed)) = 0
     THEN /\ formError' = Some(EnterHandleText)
          /\ UNCHANGED <<pagePc, isLoading, pageError, pagePersona,
                         pageLocations, userCoordinates, pageRequests>>
     ELSE /\ formError' = None
          /\ isLoading' = TRUE
          /\ pageError' = None
          /\ pagePersona' = None
          /\ pageLocations' = <<>>
          /\ pageRequests' =
               Append(pageRequests, Issue(PersonaUrl, stripAt(trim(typed))))
          /\ pagePc' = "persona"
          /\ UNCHANGED userCoordinates

\* the fetch of /api/persona comes back
PersonaFetched(r) ==
  /\ pagePc = "persona"
  /\ UNCHANGED <<formError, pageLocations, userCoordinates>>
  /\ IF IsSome(thrownBy(r, PersonaFallbackText))
     THEN /\ pageRequests' = answeredWith(pageRequests, r)
          /\ Caught(thrownBy(r, PersonaFallbackText))
          /\ UNCHANGED pagePersona
     ELSE /\ pagePersona' = r.payload
          /\ pageRequests' =
               Append(answeredWith(pageRequests, r),
                      Issue(LocationsUrl, r.payload))
          /\ pagePc' = "locations"
          /\ UNCHANGED <<isLoading, pageError>>

\* the fetch of /api/locations comes back
LocationsFetched(r) ==
  /\ pagePc = "locations"
  /\ UNCHANGED <<formError, pagePersona>>
  /\ pageRequests' = answeredWith(pageRequests, r)
  /\ IF IsSome(thrownBy(r, LocationsFallbackText))
     THEN /\ Caught(thrownBy(r, LocationsFallbackText))
          /\ UNCHANGED <<pageLocations, userCoordinates>>
     ELSE /\ pageLocations' = Val(r.payload)
          /\ userCoordinates' = Some(TorontoCentre)
          /\ isLoading' = FALSE
          /\ pagePc' = "idle"
          /\ UNCHANGED pageError

otherVars == <<exVars, fanVars, pageVars>>

OtherIdle == ExtractIdle /\ FanIdle /\ PageIdle
\* ------------------------------------------------------------------------
\* Persona synthesis: the data
\* ------------------------------------------------------------------------

PersonaObject(name, handle, traits, interests) ==
  [name |-> name, handle |-> handle, bio |-> "b", traits |-> traits,
   interests |-> interests]

\* the JSON objects the persona call answers with: every field may be
\* missing, a list may be empty, the name may be the placeholder
PersonaObjects ==
  {PersonaObject(n, h, t, s) :
     n \in {None, Some(<<>>), Some(Placeholder), Some(<<"B","o","b"," ","S","m","i","t","h">> (* Bob Smith *))},
     h \in {None, Some(<<"e","l","o","n">> (* elon *))},
     t \in {None, Some(<<>>), Some(<<"curious">>)},
     s \in {None, Some(<<>>), Some(<<"coffee">>)}}

NoObject == PersonaObject(None, None, None, None)

PersonaResponses ==
  [kind : {"throw_timeout", "throw_error", "no_content", "bad_json"},
   data : {NoObject}]
    \cup [kind : {"object"}, data : PersonaObjects]

PersonaFailedMessage == "Failed to generate persona"

\* ------------------------------------------------------------------------
\* Persona synthesis: generatePersona after the call answered
\* ------------------------------------------------------------------------

\* !personaData.name || !personaData.traits || !personaData.interests
invalidFormat(personaData) ==
  \/ ~IsSome(personaData.name)
  \/ Len(Val(personaData.name)) = 0
  \/ ~IsSome(personaData.traits)
  \/ ~IsSome(personaData.interests)

\* the name generatePersona returns for a valid response
fixName(name, handle) ==
  IF name = Placeholder THEN capitalize(handle) ELSE name

\* the result of generatePersona for the answer r and the context handle
generatePersonaResult(r, handle) ==
  CASE r.kind = "throw_timeout" ->
         [kind |-> "threw", message |-> TimedOutMessage, persona |-> None]
    [] r.kind \in {"throw_error", "no_content", "bad_json"} ->
         [kind |-> "threw", message |-> PersonaFailedMessage, persona |-> None]
    [] OTHER ->
         IF invalidFormat(r.data)
         THEN [kind |-> "threw", message |-> PersonaFailedMessage,
               persona |-> None]
         ELSE [kind |-> "returned", message |-> "",
               persona |-> Some(
                 [name |-> fixName(Val(r.data.name), handle),
                  handle |-> handle,
                  bio |-> r.data.bio,
                  traits |-> Val(r.data.traits),
                  interests |-> Val(r.data.interests)])]

\* ------------------------------------------------------------------------
\* POST /api/persona
\* ------------------------------------------------------------------------

VARIABLES
  exaApiKey,        \* ExaClient.apiKey is set
  perPc,            \* position of the POST /api/persona request
  perBody,          \* the request body
  cleanHandle,      \* the route's cleanHandle
  strategyIndex,    \* 1-based index of the strategy whose call is in flight
  lastError,        \* lastError of the strategy loop
  searchCalls,      \* the search calls issued so far, with their answers
  enrichCalls,      \* the url lists sent to the contents API
  searchOutcome,    \* how searchXProfile ended
  profileInfo,      \* the result of extractProfileInfo
  personaCalls,     \* number of persona generation calls issued
  personaAnswer,    \* what the persona generation call answered
  personaOutcome,   \* how generatePersona ended
  perResponse       \* the response of POST /api/persona

perVars ==
  <<exaApiKey, perPc, perBody, cleanHandle, strategyIndex, lastError,
    searchCalls, enrichCalls, searchOutcome, profileInfo, personaCalls,
    personaAnswer, personaOutcome, perResponse>>

vars == <<locVars, perVars, otherVars>>

\* Request bodies: not JSON, no xHandle, an xHandle that is not a string,
\* and string handles.
Handles ==
  { <<>>, <<"@">> (* @ *), <<"b","o","b">> (* bob *), <<"@","b","o","b">> (* @bob *), <<"@","@","b","o","b">> (* @@bob *), <<"u","n","k","n","o","w","n"," ","U","s","e","r">> (* unknown User *) }

PersonaBodies ==
  [json : {FALSE}, kind : {"missing"}, xHandle : {<<>>}]
    \cup [json : {TRUE}, kind : {"missing", "number"}, xHandle : {<<>>}]
    \cup [json : {TRUE}, kind : {"string"}, xHandle : Handles]

InvalidHandleText == "Invalid X handle. Please provide a valid X username."

NoProfileText ==
  "Could not find X profile data. Please check the handle and try again."

PersonaErrorText ==
  "Failed to generate persona from the X data. Please try again later."

ExaErrorText ==
  "Failed to fetch X profile data. Please check the handle and try again."

GeneralErrorText == "Failed to process your request. Please try again later."

\* every failure answered with HTTP 200
PersonaReplyOk(status, error) ==
  [status |-> 200, success |-> FALSE, error |-> error, persona |-> None]

\* a failure answer of the persona route
PersonaReply(status, error) ==
  [status |-> status, success |-> FALSE, error |-> error, persona |-> None]

NoPersonaResponse == PersonaReply(0, "")

NoSearchOutcome ==
  [kind |-> "none", error |-> "", detail |-> "", results |-> <<>>]

NoPersonaOutcome == [kind |-> "none", message |-> "", persona |-> None]

NoAnswer == [kind |-> "none", data |-> NoObject]

NoProfile == [tweets |-> <<>>, name |-> <<>>, handle |-> <<>>]

\* the error searchXProfile throws for the error e its try block raised
searchFailure(e) ==
  IF e.code = "ECONNABORTED" \/ e.hasTimeoutText
  THEN [kind |-> "threw", error |-> "timeout", detail |-> TimedOutMessage,
        results |-> <<>>]
  ELSE IF e.status = 401
  THEN [kind |-> "threw", error |-> "auth",
        detail |-> "Invalid Exa API key. Please check your API key.",
        results |-> <<>>]
  ELSE IF e.status = 429
  THEN [kind |-> "threw", error |-> "rate_limited",
        detail |-> "Rate limit exceeded. Please try again later.",
        results |-> <<>>]
  ELSE [kind |-> "threw", error |-> "api_error",
        detail |-> IF e.dataMessage # "" THEN e.dataMessage
                   ELSE IF e.message # "" THEN e.message ELSE "Failed request",
        results |-> <<>>]

\* the caught error's message passed on to the client
exaErrorReplyRaw(exaError) == PersonaReply(500, exaError.detail)

\* the route's catch block for the search: the caught error is logged, the
\* answer carries the constant text
exaErrorReply(exaError) == PersonaReply(500, ExaErrorText)

\* searchXProfile throws: the route's catch block for the search answers
SearchThrows(e) ==
  /\ searchOutcome' = searchFailure(e)
  /\ perResponse' = exaErrorReply(searchFailure(e))
  /\ perPc' = "done"
  /\ UNCHANGED <<profileInfo, personaCalls, personaOutcome>>

\* the generic error thrown whatever the loop recorded
thrownAfterLoopGeneric(last) == AllFailedError

\* throw lastError || new Error('All search strategies failed ...')
thrownAfterLoop(last) == IF last = NoError THEN AllFailedError ELSE last

\* only an auth error ends the loop
abortsLoopOnAuthOnly(e) == e.status = 401

\* a rate limit or auth error ends the loop at once
abortsLoop(e) == e.status = 429 \/ e.status = 401

\* any answer with results ends the loop
strategyWinsAlways(relevant) == Len(relevant) >= 0

\* relevantResults.length > 0: the strategy's records become searchResult
strategyWins(relevant) == Len(relevant) > 0

\* the persona is generated whatever the extraction found
noTweetsNever(info) == FALSE

\* profileInfo.tweets.length === 0
noTweets(info) == Len(info.tweets) = 0

\* searchXProfile returns: extraction, then the persona call is issued
SearchReturns(results) ==
  \E info \in {extractProfileInfo(results, cleanHandle)} :
  /\ searchOutcome' =
       [kind |-> "returned", error |-> "", detail |-> "", results |-> results]
  /\ profileInfo' = info
  /\ IF noTweets(info)
     THEN /\ perResponse' = PersonaReply(404, NoProfileText)
          /\ perPc' = "done"
          /\ UNCHANGED <<personaCalls, personaOutcome>>
     ELSE IF ~openaiApiKey
     THEN \* initializeClient() throws inside generatePersona's try block
          /\ personaOutcome' =
               [kind |-> "threw", message |-> PersonaFailedMessage,
                persona |-> None]
          /\ perResponse' = PersonaReply(500, PersonaErrorText)
          /\ perPc' = "done"
          /\ UNCHANGED personaCalls
     ELSE /\ personaCalls' = personaCalls + 1
          /\ perPc' = "generate"
          /\ UNCHANGED <<personaOutcome, perResponse>>

\* the strategy loop ended with searchResult set
LoopFound(results) ==
  IF ~hasContent(results) /\ Len(twitterUrls(results)) > 0
  THEN /\ enrichCalls' = Append(enrichCalls, twitterUrls(results))
       /\ perPc' = "enrich"
       /\ UNCHANGED <<searchOutcome, profileInfo, personaCalls,
                      personaOutcome, perResponse>>
  ELSE /\ SearchReturns(results)
       /\ UNCHANGED enrichCalls

IssueSearch(i) == [strategy |-> i, answered |-> FALSE, kind |-> "", relevant |-> <<>>]

Answered(i, kind, relevant) ==
  [strategy |-> i, answered |-> TRUE, kind |-> kind, relevant |-> relevant]

PersonaRequest(body) ==
  /\ perPc = "idle"
  /\ perBody' = body
  /\ UNCHANGED <<exaApiKey, strategyIndex, lastError, enrichCalls,
                 profileInfo, personaCalls, personaAnswer, personaOutcome>>
  /\ IF ~body.json \/ body.kind = "number"
     THEN \* request.json() rejects, or xHandle.replace is not a function
          /\ perResponse' = PersonaReply(500, GeneralErrorText)
          /\ perPc' = "done"
          /\ UNCHANGED <<cleanHandle, searchCalls, searchOutcome>>
     ELSE IF body.kind = "missing" \/ Len(body.xHandle) = 0
     THEN /\ perResponse' = PersonaReply(400, InvalidHandleText)
          /\ perPc' = "done"
          /\ UNCHANGED <<cleanHandle, searchCalls, searchOutcome>>
     ELSE /\ cleanHandle' = stripAt(body.xHandle)
          /\ IF ~exaApiKey
             THEN /\ searchOutcome' = searchFailure(ExaKeyError)
                  /\ perResponse' = exaErrorReply(searchFailure(ExaKeyError))
                  /\ perPc' = "done"
                  /\ UNCHANGED searchCalls
             ELSE /\ searchCalls' = <<IssueSearch(1)>>
                  /\ perPc' = "search"
                  /\ UNCHANGED <<searchOutcome, perResponse>>

\* the loop going on to a fifth strategy
moreStrategiesThanListed(i) == i < StrategyCount + 1

\* i < searchStrategies.length: another strategy is left to try
moreStrategies(i) == i < StrategyCount

\* the handle searchXProfile works with
searchHandle == stripAt(cleanHandle)

\* the call of the strategy in flight answers
SearchResponse(r) ==
  /\ perPc = "search"
  /\ UNCHANGED <<exaApiKey, perBody, cleanHandle, personaAnswer>>
  /\ \E relevant \in {IF r.kind = "ok" /\ Len(r.results) > 0
                        THEN filterRelevantResults(r.results, searchHandle)
                        ELSE <<>>} :
     LET i == strategyIndex
         failed == r.kind \in SearchErrorKinds
         answeredCalls == [searchCalls EXCEPT ![i] = Answered(i, r.kind, relevant)]
     IN  IF failed /\ abortsLoop(errorOf(r.kind))
         THEN /\ lastError' = errorOf(r.kind)
              /\ searchCalls' = answeredCalls
              /\ SearchThrows(errorOf(r.kind))
              /\ UNCHANGED <<strategyIndex, enrichCalls>>
         ELSE IF ~failed /\ strategyWins(relevant)
         THEN /\ searchCalls' = answeredCalls
              /\ LoopFound(relevant)
              /\ UNCHANGED <<strategyIndex, lastError>>
         ELSE /\ lastError' = IF failed THEN errorOf(r.kind) ELSE lastError
              /\ IF moreStrategies(i)
                 THEN /\ strategyIndex' = i + 1
                      /\ searchCalls' = Append(answeredCalls, IssueSearch(i + 1))
                      /\ UNCHANGED <<perPc, enrichCalls, searchOutcome,
                                     profileInfo, personaCalls, personaOutcome,
                                     perResponse>>
                 ELSE /\ searchCalls' = answeredCalls
                      /\ SearchThrows(thrownAfterLoop(lastError'))
                      /\ UNCHANGED <<strategyIndex, enrichCalls>>

\* the winning strategy's records: searchResult.results before enrichment
winningRecords == searchCalls[Len(searchCalls)].relevant

\* the contents call answers
EnrichResponse(r) ==
  /\ perPc = "enrich"
  /\ UNCHANGED <<exaApiKey, perBody, cleanHandle, strategyIndex, lastError,
                 searchCalls, enrichCalls, personaAnswer>>
  /\ \E enriched \in {IF r.kind = "ok"
                        THEN mergeContent(winningRecords, r.results)
                        ELSE winningRecords} :
       SearchReturns(enriched)

\* the persona of the route's answer
finalPersona(personaData, info, handle) ==
  [name |-> IF personaData.name = Placeholder THEN info.name
            ELSE personaData.name,
   handle |-> handle,
   bio |-> personaData.bio,
   traits |-> personaData.traits,
   interests |-> personaData.interests]

\* the persona call answers
GenerateResponse(r) ==
  /\ perPc = "generate"
  /\ UNCHANGED <<exaApiKey, perBody, cleanHandle, strategyIndex, lastError,
                 searchCalls, enrichCalls, searchOutcome, profileInfo,
                 personaCalls>>
  /\ personaAnswer' = r
  /\ LET out == generatePersonaResult(r, cleanHandle) IN
     /\ personaOutcome' = out
     /\ perPc' = "done"
     /\ IF out.kind = "threw"
        THEN perResponse' = PersonaReply(500, PersonaErrorText)
        ELSE perResponse' =
               [status |-> 200, success |-> TRUE, error |-> "",
                persona |-> Some(finalPersona(Val(out.persona), profileInfo,
                                              cleanHandle))]

\* ------------------------------------------------------------------------
\* Specifications
\* ------------------------------------------------------------------------

\* nothing requested yet; the keys are read from the environment
Idle(openaiKey, exaKey) ==
  /\ openaiApiKey = openaiKey
  /\ locPc = "idle"
  /\ locPersona = None
  /\ locationData = <<>>
  /\ uniqueLocations = <<>>
  /\ seenNames = {}
  /\ seenAddresses = {}
  /\ genCalls = <<>>
  /\ genAnswers = <<>>
  /\ locOutcome = NoOutcome
  /\ locResponse = NoResponse
  /\ exaApiKey = exaKey
  /\ perPc = "idle"
  /\ perBody = [json |-> TRUE, kind |-> "missing", xHandle |-> <<>>]
  /\ cleanHandle = <<>>
  /\ strategyIndex = 1
  /\ lastError = NoError
  /\ searchCalls = <<>>
  /\ enrichCalls = <<>>
  /\ searchOutcome = NoSearchOutcome
  /\ profileInfo = NoProfile
  /\ personaCalls = 0
  /\ personaAnswer = NoAnswer
  /\ personaOutcome = NoPersonaOutcome
  /\ perResponse = NoPersonaResponse
  /\ OtherIdle

Init == \E openaiKey \in BOOLEAN, exaKey \in BOOLEAN : Idle(openaiKey, exaKey)

\* the search key plays no part in POST /api/locations
InitLocations == \E openaiKey \in BOOLEAN : Idle(openaiKey, TRUE)

\* one POST /api/locations request
NextLocations ==
  \/ \E body \in LocationBodies : LocationsRequest(body) /\ UNCHANGED <<perVars, otherVars>>
  \/ \E r \in GenResponses : InitialResponse(r) /\ UNCHANGED <<perVars, otherVars>>
  \/ \E r \in GenResponses : AdditionalResponse(r) /\ UNCHANGED <<perVars, otherVars>>
  \/ \E r \in GenResponses : FinalResponse(r) /\ UNCHANGED <<perVars, otherVars>>

\* one POST /api/persona request
NextPersona ==
  \/ \E body \in PersonaBodies : PersonaRequest(body) /\ UNCHANGED <<locVars, otherVars>>
  \/ \E r \in SearchResponses : SearchResponse(r) /\ UNCHANGED <<locVars, otherVars>>
  \/ \E r \in EnrichResponses : EnrichResponse(r) /\ UNCHANGED <<locVars, otherVars>>
  \/ \E r \in PersonaResponses : GenerateResponse(r) /\ UNCHANGED <<locVars, otherVars>>

\* one request, to either route
NextRoutes ==
  \/ perPc = "idle" /\ NextLocations
  \/ locPc = "idle" /\ NextPersona

\* extractProfileInfo applied to a collection of records
NextExtract ==
  \E results \in ExtractInputs, handle \in {<<"b","o","b">> (* bob *), <<"u","n","k","n","o","w","n"," ","U","s","e","r">> (* unknown User *)} :
    ExtractProfile(results, handle) /\ UNCHANGED <<locVars, perVars, fanVars, pageVars>>

\* one call of the fan-out revision of generateLocationRecommendations
NextFanOut ==
  \/ FanOutRequest /\ UNCHANGED <<locVars, perVars, exVars, pageVars>>
  \/ \E i \in 1..SlotCount, r \in FanResponses :
       FanResponse(i, r) /\ UNCHANGED <<locVars, perVars, exVars, pageVars>>

\* the page, submitted up to MaxSubmits times
NextPage ==
  \/ \E typed \in FormInputs :
       Submit(typed) /\ UNCHANGED <<locVars, perVars, exVars, fanVars>>
  \/ \E r \in FetchOutcomes(PersonaPayloads) :
       PersonaFetched(r) /\ UNCHANGED <<locVars, perVars, exVars, fanVars>>
  \/ \E r \in FetchOutcomes(LocationPayloads) :
       LocationsFetched(r) /\ UNCHANGED <<locVars, perVars, exVars, fanVars>>

Next == NextLocations \/ NextPersona \/ NextExtract \/ NextFanOut \/ NextPage

SpecLocations == InitLocations /\ [][NextLocations]_vars

SpecPersona == Init /\ [][NextPersona]_vars

SpecRoutes == Init /\ [][NextRoutes]_vars

\* a pending search call is answered: axios.post resolves or rejects, at
\* the latest when its timeout of 30000 ms expires
SearchAnswers == \E r \in SearchResponses : SearchResponse(r) /\ UNCHANGED <<locVars, otherVars>>

\* a pending contents call is answered likewise
EnrichAnswers == \E r \in EnrichResponses : EnrichResponse(r) /\ UNCHANGED <<locVars, otherVars>>

\* the request bodies of the runs of searchXProfile that are followed to
\* their end
SearchBodies ==
  {body \in PersonaBodies :
     body.kind = "string" /\ body.xHandle \in {<<"@","b","o","b">> (* @bob *), <<"u","n","k","n","o","w","n"," ","U","s","e","r">> (* unknown User *)}}

\* one POST /api/persona request up to the end of searchXProfile
NextSearch ==
  \/ \E body \in SearchBodies : PersonaRequest(body) /\ UNCHANGED <<locVars, otherVars>>
  \/ SearchAnswers
  \/ EnrichAnswers

\* searchXProfile with outbound calls that are eventually answered
SpecSearchLive ==
  Init /\ [][NextSearch]_vars /\ WF_vars(SearchAnswers) /\ WF_vars(EnrichAnswers)

SpecExtract == Init /\ [][NextExtract]_vars

SpecFanOut == Init /\ [][NextFanOut]_vars

SpecPage == Init /\ [][NextPage]_vars

Spec == Init /\ [][Next]_vars

\* ------------------------------------------------------------------------
\* Properties
\* ------------------------------------------------------------------------

\* C1: whenever generateLocationRecommendations returns normally, and the
\* locations route therefore answers success, the list holds exactly 5
\* locations, whatever the generation calls answered.
C1_ExactlyFive ==
  /\ locOutcome.kind = "returned" => Len(locOutcome.locations) = 5
  /\ locResponse.success =>
       /\ locOutcome.kind = "returned"
       /\ IsSome(locResponse.locations)
       /\ Len(Val(locResponse.locations)) = 5

\* three generated locations were accepted after all three calls and the
\* route answered success
C1_Witness ==
  /\ locResponse.success
  /\ Len(genCalls) = 3
  /\ Len(uniqueLocations) = 3

\* C2: no two locations of a returned list have the same normalized name,
\* and no two have the same normalized address, catalog entries included.
C2_NoDuplicates ==
  locOutcome.kind = "returned" =>
    \A i \in 1..Len(locOutcome.locations) :
      \A j \in 1..Len(locOutcome.locations) :
        i < j =>
          /\ normalize(locOutcome.locations[i].name)
               # normalize(locOutcome.locations[j].name)
          /\ normalize(locOutcome.locations[i].address)
               # normalize(locOutcome.locations[j].address)

\* C3: in a successful answer of the persona route, persona.handle is the
\* request's xHandle without its leading '@', whatever handle the
\* generation call returned.
C3_HandleIsRequested ==
  perResponse.success =>
    LET x == perBody.xHandle
        h == Val(perResponse.persona).handle
    IN  IF Len(x) > 0 /\ x[1] = "@" THEN x = <<"@">> \o h ELSE x = h

\* a success for a handle written with two '@' while the generator returned
\* another handle
C3_Witness ==
  /\ perResponse.success
  /\ Len(perBody.xHandle) > 2
  /\ perBody.xHandle[1] = "@"
  /\ perBody.xHandle[2] = "@"
  /\ IsSome(personaAnswer.data.handle)
  /\ Val(personaAnswer.data.handle) # Val(perResponse.persona).handle

\* C4: in a successful answer of the persona route, persona.name is never
\* 'Unknown User'; when the generation call returned 'Unknown User' the name
\* is the requested handle with its first character in upper case.
C4_NeverPlaceholder ==
  perResponse.success =>
    /\ Val(perResponse.persona).name # Placeholder
    /\ personaAnswer.data.name = Some(Placeholder) =>
         Val(perResponse.persona).name = capitalize(stripAt(perBody.xHandle))

\* C5: generatePersona never returns a persona with empty traits or empty
\* interests; an answer with empty or missing traits or interests makes
\* generatePersona fail and the route report a failure.
C5_NonEmptyLists ==
  /\ personaOutcome.kind = "returned" =>
       /\ Len(Val(personaOutcome.persona).traits) > 0
       /\ Len(Val(personaOutcome.persona).interests) > 0
  /\ (/\ perPc = "done"
      /\ personaAnswer.kind = "object"
      /\ \/ personaAnswer.data.traits \in {None, Some(<<>>)}
         \/ personaAnswer.data.interests \in {None, Some(<<>>)})
       => personaOutcome.kind = "threw" /\ ~perResponse.success

\* C6: when the generation call returns an empty name together with traits
\* and interests, generatePersona succeeds and the name is the capitalized
\* handle.
C6_EmptyNameReplaced ==
  (/\ perPc = "done"
   /\ personaAnswer.kind = "object"
   /\ personaAnswer.data.name = Some(<<>>)
   /\ IsSome(personaAnswer.data.traits)
   /\ Len(Val(personaAnswer.data.traits)) > 0
   /\ IsSome(personaAnswer.data.interests)
   /\ Len(Val(personaAnswer.data.interests)) > 0)
    => /\ personaOutcome.kind = "returned"
       /\ Val(personaOutcome.persona).name = capitalize(cleanHandle)

\* C7: the search strategies are issued in the order 1, 2, 3, 4; a strategy
\* is issued only after the one before it ended without a relevant record
\* or with a timeout or transport error; none is issued after a strategy
\* gave a relevant record; the returned records are the relevant records of
\* that strategy (their text and highlights as the contents call left them).
C7_StrategyOrder ==
  /\ Len(searchCalls) <= 4
  /\ \A k \in 1..Len(searchCalls) : searchCalls[k].strategy = k
  /\ \A k \in 1..(Len(searchCalls) - 1) :
       /\ searchCalls[k].answered
       /\ Len(searchCalls[k].relevant) = 0
       /\ searchCalls[k].kind \in {"ok", "no_data", "timeout", "network", "http500"}
  /\ perPc \in {"enrich", "generate"} \/ searchOutcome.kind = "returned" =>
       /\ searchCalls[Len(searchCalls)].answered
       /\ searchCalls[Len(searchCalls)].kind = "ok"
       /\ Len(searchCalls[Len(searchCalls)].relevant) > 0
       /\ \A k \in 1..Len(searchCalls[Len(searchCalls)].relevant) :
            isRelevant(searchCalls[Len(searchCalls)].relevant[k],
                       stripAt(stripAt(perBody.xHandle)))
  /\ searchOutcome.kind = "returned" =>
       LET won == searchCalls[Len(searchCalls)].relevant IN
       /\ Len(searchOutcome.results) = Len(won)
       /\ \A k \in 1..Len(won) :
            /\ searchOutcome.results[k].url = won[k].url
            /\ searchOutcome.results[k].title = won[k].title
       /\ enrichCalls = <<>> => searchOutcome.results = won

\* the third strategy won after a timeout and an answer without relevant
\* records
C7_Witness ==
  /\ searchOutcome.kind = "returned"
  /\ Len(searchCalls) = 3
  /\ searchCalls[1].kind = "timeout"
  /\ searchCalls[2].kind = "ok"

\* C8: after a strategy call failed with HTTP 401 or 429 no further strategy
\* call and no contents call is issued, and searchXProfile ends with the
\* auth failure or the rate-limit error.
C8_AbortOnAuthOrRateLimit ==
  \A k \in 1..Len(searchCalls) :
    searchCalls[k].kind \in {"http401", "http429"} =>
      /\ k = Len(searchCalls)
      /\ perPc = "done"
      /\ enrichCalls = <<>>
      /\ personaCalls = 0
      /\ searchOutcome.kind = "threw"
      /\ searchOutcome.error =
           IF searchCalls[k].kind = "http401" THEN "auth" ELSE "rate_limited"

\* the second strategy was rate limited after the first one timed out
C8_Witness ==
  /\ Len(searchCalls) = 2
  /\ searchCalls[1].kind = "timeout"
  /\ searchCalls[2].kind = "http429"
  /\ searchOutcome.error = "rate_limited"

\* all four strategies were tried and none gave a relevant record
Exhausted ==
  /\ Len(searchCalls) = 4
  /\ \A k \in 1..4 :
       /\ searchCalls[k].answered
       /\ Len(searchCalls[k].relevant) = 0
       /\ searchCalls[k].kind \notin {"http401", "http429"}

\* C9 as stated: whenever all four strategies were tried without a relevant
\* record, searchXProfile ends with the no-results outcome.
C9_AlwaysNoResults ==
  Exhausted =>
    /\ searchOutcome.kind = "threw"
    /\ searchOutcome.error = "api_error"
    /\ searchOutcome.detail = AllFailedMessage

\* C9 as amended: whenever all four strategies were tried without a relevant
\* record, searchXProfile ends with an error; it is the no-results outcome
\* when no strategy call failed, and otherwise the error of the last call
\* that failed: the timeout error after a timeout, an API error with that
\* call's message after a transport error.
C9_LastErrorOrNoResults ==
  Exhausted =>
    LET failedCalls ==
          {k \in 1..4 : searchCalls[k].kind \in {"timeout", "network", "http500"}}
    IN  /\ searchOutcome.kind = "threw"
        /\ IF failedCalls = {}
           THEN /\ searchOutcome.error = "api_error"
                /\ searchOutcome.detail = AllFailedMessage
           ELSE IF searchCalls[SetMax(failedCalls)].kind = "timeout"
           THEN searchOutcome.error = "timeout"
           ELSE /\ searchOutcome.error = "api_error"
                /\ searchOutcome.detail # AllFailedMessage

\* the first strategy timed out, the other three answered without relevant
\* records, and the search ended with the timeout error
C9_Witness ==
  /\ Exhausted
  /\ searchCalls[1].kind = "timeout"
  /\ \A k \in 2..4 : searchCalls[k].kind = "ok"
  /\ searchOutcome.error = "timeout"

\* C10: when all four strategies answer without a relevant record, the
\* persona route answers 404 with the no-profile-data failure.
C10_ExhaustionIs404 ==
  (/\ Len(searchCalls) = 4
   /\ \A k \in 1..4 :
        /\ searchCalls[k].answered
        /\ searchCalls[k].kind \in {"ok", "no_data"}
        /\ Len(searchCalls[k].relevant) = 0)
    => /\ perResponse.status = 404
       /\ ~perResponse.success
       /\ perResponse.error = NoProfileText

\* C11: in both routes the body's success flag is true exactly when the
\* HTTP status is 200; a success carries the payload and no error; a
\* failure has a status among 400, 404 and 500, one error message and no
\* persona or locations payload.
C11_SuccessMirrorsStatus ==
  /\ perPc = "done" =>
       /\ perResponse.success <=> perResponse.status = 200
       /\ perResponse.success =>
            IsSome(perResponse.persona) /\ perResponse.error = ""
       /\ ~perResponse.success =>
            /\ perResponse.status \in {400, 404, 500}
            /\ perResponse.error # ""
            /\ perResponse.persona = None
  /\ locPc = "done" =>
       /\ locResponse.success <=> locResponse.status = 200
       /\ locResponse.success =>
            IsSome(locResponse.locations) /\ locResponse.error = ""
       /\ ~locResponse.success =>
            /\ locResponse.status \in {400, 404, 500}
            /\ locResponse.error # ""
            /\ locResponse.locations = None

\* the persona route answered a failure after the search had succeeded and
\* the extraction found no tweet
C11_Witness ==
  /\ perPc = "done"
  /\ searchOutcome.kind = "returned"
  /\ perResponse.status = 404
  /\ ~perResponse.success

\* C12: the body of a failure answer is fixed by the stage that failed
\* (request parsing, validation, search, extraction, generation), whatever
\* message the upstream error or the exception carried.
C12_MessageByStage ==
  /\ (perPc = "done" /\ ~perResponse.success) =>
       perResponse =
         IF personaOutcome.kind = "threw"
         THEN [status |-> 500, success |-> FALSE, error |-> PersonaErrorText,
               persona |-> None]
         ELSE IF searchOutcome.kind = "threw"
         THEN [status |-> 500, success |-> FALSE, error |-> ExaErrorText,
               persona |-> None]
         ELSE IF searchOutcome.kind = "returned"
         THEN [status |-> 404, success |-> FALSE, error |-> NoProfileText,
               persona |-> None]
         ELSE IF ~perBody.json \/ perBody.kind = "number"
         THEN [status |-> 500, success |-> FALSE, error |-> GeneralErrorText,
               persona |-> None]
         ELSE [status |-> 400, success |-> FALSE, error |-> InvalidHandleText,
               persona |-> None]
  /\ (locPc = "done" /\ ~locResponse.success) =>
       /\ locResponse \in
            {[status |-> 400, success |-> FALSE, error |-> NoPersonaText,
              locations |-> None],
             [status |-> 404, success |-> FALSE, error |-> NoLocationsText,
              locations |-> None],
             [status |-> 500, success |-> FALSE, error |-> LocationsErrorText,
              locations |-> None]}
       /\ locOutcome.kind = "threw" => locResponse.status = 500
       /\ locOutcome.kind = "returned" => locResponse.status = 404
       /\ (locOutcome.kind = "none" /\ IsSome(locPersona)) =>
            locResponse.status = 500

\* the search failed with an upstream message of its own and the answer
\* carries the constant text of the search stage
C12_Witness ==
  /\ perPc = "done"
  /\ searchOutcome.kind = "threw"
  /\ searchOutcome.detail = "Internal error"
  /\ perResponse.error = ExaErrorText

\* C13: a request to the locations route whose persona is missing or null,
\* or whose persona has empty traits or empty interests, is answered 400
\* without a generation call.
C13_InvalidPersonaIs400 ==
  [][\A body \in LocationBodies :
       (/\ LocationsRequest(body)
        /\ body.json
        /\ \/ ~IsSome(body.persona)
           \/ Val(body.persona).traits = Some(<<>>)
           \/ Val(body.persona).interests = Some(<<>>))
         => (genCalls' = <<>> /\ locResponse'.status = 400)]_vars

\* C14: whenever a search call has been issued the handle the route works
\* with (xHandle without its leading '@') is not empty; the handle of the
\* extracted profile is that handle, whatever the records hold; a request
\* without xHandle or with an empty one is answered 400 without a search
\* call.
C14_HandleNonEmptyAndTrusted ==
  /\ Len(searchCalls) > 0 => Len(cleanHandle) > 0
  /\ searchOutcome.kind = "returned" =>
       LET x == perBody.xHandle
           h == profileInfo.handle
       IN  IF Len(x) > 0 /\ x[1] = "@" THEN x = <<"@">> \o h ELSE x = h
  /\ (/\ perPc = "done"
      /\ perBody.json
      /\ \/ perBody.kind = "missing"
         \/ perBody.kind = "string" /\ Len(perBody.xHandle) = 0)
       => perResponse.status = 400 /\ searchCalls = <<>>

\* C15: the failure generatePersona reports for an answer that fails the
\* validation differs from the failure it reports for an answer without
\* content.
C15_Distinguishable ==
  (/\ perPc = "done"
   /\ personaAnswer.kind = "object"
   /\ personaOutcome.kind = "threw")
    => personaOutcome #
         generatePersonaResult([kind |-> "no_content", data |-> NoObject],
                               cleanHandle)

\* C16: when fewer than 5 generated locations are accepted, the returned
\* list has 5 entries: the accepted ones in their order, none dropped or
\* replaced, followed by entries of the static catalog in catalog order.
C16_GeneratedThenCatalog ==
  (locOutcome.kind = "returned" /\ Len(uniqueLocations) < 5) =>
    LET k == Len(uniqueLocations)
        returned == locOutcome.locations
    IN  /\ Len(returned) = 5
        /\ \A i \in 1..k :
             /\ returned[i].name = Val(uniqueLocations[i].name)
             /\ returned[i].address = Val(uniqueLocations[i].address)
             /\ returned[i].description = uniqueLocations[i].description
        /\ \A i \in (k + 1)..5 :
             /\ returned[i].name = defaultLocations[i - k].name
             /\ returned[i].address = defaultLocations[i - k].address
             /\ returned[i].description = defaultLocations[i - k].description
             /\ returned[i].category = defaultLocations[i - k].category
             /\ returned[i].coordinates = defaultLocations[i - k].coordinates
             /\ returned[i].rating = defaultLocations[i - k].rating
             /\ returned[i].website = defaultLocations[i - k].website

\* two generated locations were accepted after all three calls, and three
\* catalog entries follow them
C16_Witness ==
  /\ locOutcome.kind = "returned"
  /\ Len(genAnswers) = 3
  /\ Len(uniqueLocations) = 2
  /\ locOutcome.locations[3].name = defaultLocations[1].name

\* the kinds of answer that carry no parsable list of candidates
NoParsableContent == {"no_content", "bad_json", "no_array"}

\* C17: when every generation call answered without parsable content the
\* operation has ended with its failure, after the first call, and the
\* route reports a failure: no list from the static catalog is returned.
C17_NoContentIsError ==
  (/\ genAnswers # <<>>
   /\ \A k \in 1..Len(genAnswers) : genAnswers[k].kind \in NoParsableContent)
    => /\ Len(genAnswers) = 1
       /\ Len(genCalls) = 1
       /\ locPc = "done"
       /\ locOutcome.kind = "threw"
       /\ locOutcome.message = LocationsFailedMessage
       /\ ~locResponse.success
       /\ locResponse.locations = None

\* the first call answered with content that is not JSON and the
\* operation failed
C17_Witness ==
  /\ Len(genAnswers) = 1
  /\ genAnswers[1].kind = "bad_json"
  /\ locOutcome.kind = "threw"

\* the candidates of the answers received so far, in response order
CandidatesOf(n) ==
  LET Parsed(k) ==
        IF genAnswers[k].kind \in
             {"throw_timeout", "throw_error", "no_content", "bad_json"}
        THEN <<>>
        ELSE CASE genCalls[k].call = "initial" -> parseInitial(genAnswers[k]).data
               [] genCalls[k].call = "additional" -> parseAdditional(genAnswers[k])
               [] OTHER -> parseFinal(genAnswers[k])
  IN  (IF n >= 1 THEN Parsed(1) ELSE <<>>)
        \o (IF n >= 2 THEN Parsed(2) ELSE <<>>)
        \o (IF n >= 3 THEN Parsed(3) ELSE <<>>)

\* greedy first-occurrence filter over the candidates' normalized names nn
\* and addresses aa: the positions accepted, a candidate being dropped
\* exactly when its name or its address is that of a candidate accepted
\* before it, and nothing being accepted after the fifth
RECURSIVE GreedyPositions(_, _, _, _)
GreedyPositions(nn, aa, i, accepted) ==
  IF i > Len(nn) \/ Len(accepted) >= 5 THEN accepted
  ELSE IF nn[i] = None \/ aa[i] = None
  THEN GreedyPositions(nn, aa, i + 1, accepted)
  ELSE IF \E j \in 1..Len(accepted) :
            nn[accepted[j]] = nn[i] \/ aa[accepted[j]] = aa[i]
  THEN GreedyPositions(nn, aa, i + 1, accepted)
  ELSE GreedyPositions(nn, aa, i + 1, Append(accepted, i))

\* the candidates the greedy filter accepts
GreedyAccept(cands) ==
  LET nn == [i \in 1..Len(cands) |->
               IF IsSome(cands[i].name)
               THEN Some(trim(toLowerCase(Val(cands[i].name)))) ELSE None]
      aa == [i \in 1..Len(cands) |->
               IF IsSome(cands[i].address)
               THEN Some(trim(toLowerCase(Val(cands[i].address)))) ELSE None]
      positions == GreedyPositions(nn, aa, 1, <<>>)
  IN  [k \in 1..Len(positions) |-> cands[positions[k]]]

\* C18: the accepted generated locations are the greedy first-occurrence
\* filter of the candidates in response order (first, second, last call).
C18_GreedyFirstOccurrence ==
  locOutcome.kind = "returned" =>
    uniqueLocations = GreedyAccept(CandidatesOf(Len(genAnswers)))

\* five locations were accepted over three calls, some candidates having
\* been dropped
C18_Witness ==
  /\ locOutcome.kind = "returned"
  /\ Len(genAnswers) = 3
  /\ Len(uniqueLocations) = 5
  /\ Len(CandidatesOf(3)) > 5

\* C19: at most two calls follow the first one; the second call is issued
\* only with fewer than 5 candidates held, the last one only with fewer
\* than 5 accepted locations held; each asks for 5 minus the number held and
\* lists the names held; when the first answer gives 5 unique locations no
\* further call is issued.
C19_CorrectiveCalls ==
  /\ Len(genCalls) <= 3
  /\ \A k \in 1..Len(genCalls) : (genCalls[k].call = "initial") <=> (k = 1)
  /\ \A k \in 2..Len(genCalls) :
       LET held == IF genCalls[k].call = "additional"
                   THEN CandidatesOf(1)
                   ELSE GreedyAccept(CandidatesOf(k - 1))
       IN  /\ genCalls[k - 1].call # "final"
           /\ Len(held) < 5
           /\ genCalls[k].asked = 5 - Len(held)
           /\ Len(genCalls[k].exclusions) = Len(held)
           /\ \A i \in 1..Len(held) :
                IF genCalls[k].call = "additional"
                THEN genCalls[k].exclusions[i] = held[i].name
                ELSE genCalls[k].exclusions[i][1] = held[i].name
  /\ (/\ Len(genAnswers) >= 1
      /\ Len(GreedyAccept(CandidatesOf(1))) = 5) => Len(genCalls) = 1

\* the second call asked for two locations and the last one for one
C19_Witness ==
  /\ Len(genCalls) = 3
  /\ genCalls[2].asked = 2
  /\ genCalls[3].asked = 1
  /\ Len(genCalls[3].exclusions) = 4

\* C20: the website of a returned generated location is absent when the
\* candidate's value does not start with http, holds no '.', or holds
\* google.com/maps; otherwise it is the candidate's value.
C20_WebsiteFiltered ==
  locOutcome.kind = "returned" =>
    \A i \in 1..Len(uniqueLocations) :
      LET w == uniqueLocations[i].website
          out == locOutcome.locations[i].website
      IN  IF ~IsSome(w) THEN out = None
          ELSE IF \/ ~startsWith(Val(w), HttpPrefix)
                  \/ ~includes(Val(w), Dot)
                  \/ includes(Val(w), MapsLink)
          THEN out = None
          ELSE out = w

\* C22: a contents call is issued only when no record of the winning
\* strategy has text longer than 50 characters and none has highlights;
\* when the contents call fails or answers without results, searchXProfile
\* returns the winning strategy's records unmodified.
C22_EnrichmentNonFatal ==
  /\ [](enrichCalls # <<>> =>
         \A k \in 1..Len(winningRecords) :
           /\ IsSome(winningRecords[k].text) =>
                Len(Val(winningRecords[k].text)) <= 50
           /\ IsSome(winningRecords[k].highlights) =>
                Len(Val(winningRecords[k].highlights)) = 0)
  /\ [][\A r \in EnrichResponses :
          (EnrichResponse(r) /\ (r.kind # "ok" \/ r.results = <<>>))
            => /\ searchOutcome'.kind = "returned"
               /\ searchOutcome'.results = winningRecords]_vars

\* a contents call was issued and the search returned the winning
\* strategy's records as they were
C22_Witness ==
  /\ Len(enrichCalls) = 1
  /\ searchOutcome.kind = "returned"
  /\ searchOutcome.results = winningRecords
  /\ ~hasContent(searchOutcome.results)

\* C25: no call is repeated within one request: no strategy is issued
\* twice, at most one contents call and at most one persona generation
\* call are issued, also after a failure; the persona generation call is
\* issued only after the search returned and the extraction gave at least
\* one tweet.
C25_NoRetry ==
  /\ \A j \in 1..Len(searchCalls) : \A k \in 1..Len(searchCalls) :
       searchCalls[j].strategy = searchCalls[k].strategy => j = k
  /\ Len(enrichCalls) <= 1
  /\ personaCalls <= 1
  /\ personaCalls = 1 =>
       /\ searchOutcome.kind = "returned"
       /\ Len(profileInfo.tweets) > 0
  /\ searchOutcome.kind = "threw" => personaCalls = 0
  /\ personaOutcome.kind = "threw" => perPc = "done"

\* the one persona generation call failed and the request ended
C25_Witness ==
  /\ perPc = "done"
  /\ personaCalls = 1
  /\ personaAnswer.kind = "throw_error"
  /\ personaOutcome.kind = "threw"

\* C27: searchXProfile issues at most 4 search calls and at most 1 contents
\* call; once its calls are answered it ends with a result or an error; a
\* strategy call that timed out is a failed attempt after which the next
\* strategy is issued.
C27_SearchTerminates ==
  /\ [](/\ Len(searchCalls) <= 4
        /\ Len(enrichCalls) <= 1
        /\ \A k \in 1..Len(searchCalls) :
             (searchCalls[k].kind = "timeout" /\ k < 4) =>
               /\ Len(searchCalls) > k
               /\ searchCalls[k + 1].strategy = k + 1)
  /\ (perPc \in {"search", "enrich"})
       ~> (searchOutcome.kind \in {"returned", "threw"})

\* the search returned after four search calls, the first of which timed
\* out, and one contents call
C27_Witness ==
  /\ Len(searchCalls) = 4
  /\ searchCalls[1].kind = "timeout"
  /\ Len(enrichCalls) = 1
  /\ searchOutcome.kind = "returned"

\* C29: the merge of the fetched contents keeps the number and the order
\* of the records and every field but text and highlights; text or
\* highlights change only to the non-empty value of a fetched content with
\* the record's url.
C29_MergeFrame ==
  [][\A r \in EnrichResponses :
       (EnrichResponse(r) /\ r.kind = "ok") =>
         LET before == winningRecords
             after == searchOutcome'.results
         IN  /\ Len(after) = Len(before)
             /\ \A k \in 1..Len(before) :
                  LET hits == {j \in 1..Len(r.results) :
                                 r.results[j].url = before[k].url}
                  IN  /\ after[k].url = before[k].url
                      /\ after[k].title = before[k].title
                      /\ after[k].text # before[k].text =>
                           \E j \in hits :
                             /\ r.results[j].text = after[k].text
                             /\ IsSome(after[k].text)
                             /\ Len(Val(after[k].text)) > 0
                      /\ after[k].highlights # before[k].highlights =>
                           \E j \in hits :
                             /\ r.results[j].highlights = after[k].highlights
                             /\ IsSome(after[k].highlights)
                             /\ Len(Val(after[k].highlights)) > 0]_vars

\* a plausible bounding region of Toronto, in 1/10000 degree
InCityRegion(c) ==
  /\ c.lat >= 435000 /\ c.lat <= 439000
  /\ c.lng >= 0 - 797000 /\ c.lng <= 0 - 790000

\* C21: every returned location has coordinates inside the city's bounding
\* region; a generated candidate whose coordinates are missing or outside
\* the region is returned with the default centre point.
C21_CoordinatesInRegion ==
  locOutcome.kind = "returned" =>
    /\ \A i \in 1..Len(locOutcome.locations) :
         InCityRegion(locOutcome.locations[i].coordinates)
    /\ \A i \in 1..Len(uniqueLocations) :
         (\/ ~IsSome(uniqueLocations[i].coordinates)
          \/ ~InCityRegion(Val(uniqueLocations[i].coordinates)))
           => locOutcome.locations[i].coordinates = DefaultCoordinates

\* C28: when a corrective generation call throws (transport error, timeout
\* or content that is not JSON), the operation fails as a whole: it returns
\* no location, performs no backfill, and the route answers 500.
C28_CorrectiveThrowFails ==
  \A k \in 2..Len(genAnswers) :
    genAnswers[k].kind \in {"throw_timeout", "throw_error", "bad_json"} =>
      /\ k = Len(genAnswers)
      /\ locPc = "done"
      /\ locOutcome.kind = "threw"
      /\ locOutcome.locations = <<>>
      /\ locResponse.status = 500
      /\ ~locResponse.success
      /\ locResponse.locations = None

\* the first call gave three candidates, the last call timed out and the
\* request was answered 500
C28_Witness ==
  /\ Len(genAnswers) = 3
  /\ Len(CandidatesOf(1)) = 3
  /\ Len(uniqueLocations) \in 1..4
  /\ genAnswers[3].kind = "throw_timeout"
  /\ locResponse.status = 500

\* everything the records give as tweet text, in the order the loop of
\* extractProfileInfo comes across it
RECURSIVE Discovered(_, _)
Discovered(results, i) ==
  IF i > Len(results) THEN <<>>
  ELSE titleFragments(results[i]) \o highlightFragments(results[i])
         \o textFragments(results[i]) \o Discovered(results, i + 1)

\* the positions at which a string is discovered for the first time
FirstDiscoveries(found) ==
  {p \in 1..Len(found) : \A q \in 1..(p - 1) : found[q] # found[p]}

\* C26: the tweets extractProfileInfo returns contain no string twice, are
\* in the order of first discovery, and are at most 20: they are the first
\* 20 different strings discovered.
C26_TweetsDistinctOrderedCapped ==
  exInfo # NoExtraction =>
    LET tweets == exInfo.tweets
        found == Discovered(exResults, 1)
        firsts == FirstDiscoveries(found)
    IN  /\ \A j, k \in 1..Len(tweets) : j # k => tweets[j] # tweets[k]
        /\ Len(tweets) <= 20
        /\ Len(tweets) = SeqMin(20, Cardinality(firsts))
        /\ \A k \in 1..Len(tweets) :
             \E p \in firsts :
               /\ Cardinality({q \in firsts : q <= p}) = k
               /\ tweets[k] = found[p]

\* more than 20 different strings were discovered, one of them twice, and
\* 20 tweets were returned
C26_Witness ==
  /\ Len(exInfo.tweets) = 20
  /\ Cardinality(FirstDiscoveries(Discovered(exResults, 1))) > 20
  /\ Cardinality(FirstDiscoveries(Discovered(exResults, 1)))
       < Len(Discovered(exResults, 1))
  /\ Len(exResults) = 2

\* the slots whose call has given content that parses to a location
YieldingSlots == {i \in 1..SlotCount : fanAnswers[i].kind = "ok"}

\* C23: in the fan-out strategy a call that fails or returns malformed
\* content yields no location for its slot while the locations of the
\* other slots are still returned; the whole set fails only when no slot
\* yields a location.
C23_SlotFailureIsolated ==
  fanPc = "done" =>
    /\ fanOutcome.kind = "threw" => YieldingSlots = {}
    /\ fanOutcome.kind = "returned" =>
         /\ \A k \in 1..Len(fanOutcome.locations) :
              fanOutcome.locations[k].id \in YieldingSlots
         /\ \A i \in YieldingSlots :
              \E k \in 1..Len(fanOutcome.locations) :
                fanOutcome.locations[k].name = fanAnswers[i].object.name

\* C24: in the fan-out strategy, whatever the order in which the five
\* calls complete, the merged output lists the locations by increasing
\* category-rotation index: each location carries the name its slot's call
\* gave, and the slots of the output increase.
C24_MergedInSlotOrder ==
  fanOutcome.kind = "returned" =>
    LET out == fanOutcome.locations IN
    /\ \A k \in 1..Len(out) :
         /\ out[k].id \in YieldingSlots
         /\ out[k].name = fanAnswers[out[k].id].object.name
         /\ out[k].category =
              IF IsSome(fanAnswers[out[k].id].object.category)
              THEN Val(fanAnswers[out[k].id].object.category)
              ELSE categories[out[k].id]
    /\ \A j, k \in 1..Len(out) : j < k => out[j].id < out[k].id
    /\ \A i \in YieldingSlots :
         (\A j \in YieldingSlots :
            j < i => fanAnswers[j].object.name # fanAnswers[i].object.name)
           => \E k \in 1..Len(out) : out[k].id = i

\* the calls completed from the last slot to the first, and two locations
\* with different names were returned
C24_Witness ==
  /\ fanOutcome.kind = "returned"
  /\ fanArrivals = <<5, 4, 3, 2, 1>>
  /\ Len(fanOutcome.locations) = 2
  /\ fanOutcome.locations[1].id = 2
  /\ fanOutcome.locations[2].id = 5

\* a response with which the request it answers has failed: a rejected
\* fetch, a status outside 2xx, a body that is not JSON, success false, or
\* success without the payload
RequestFailed(r) ==
  \/ r.kind \in {"reject", "not_ok", "bad_json"}
  \/ r.kind = "json" /\ (~r.success \/ r.payload = None)

\* C30: /api/locations is requested only after /api/persona has answered
\* success with a persona; when handleSubmit has finished, isLoading is
\* false and error is set exactly when one of its two requests failed; a
\* failed locations request leaves the persona set and the locations empty.
C30_PageSequencing ==
  /\ \A k \in 1..Len(pageRequests) :
       pageRequests[k].url = LocationsUrl =>
         /\ k > 1
         /\ pageRequests[k - 1].url = PersonaUrl
         /\ pageRequests[k - 1].answer.kind = "json"
         /\ pageRequests[k - 1].answer.success
         /\ IsSome(pageRequests[k - 1].answer.payload)
         /\ pageRequests[k].body = pageRequests[k - 1].answer.payload
  /\ (pagePc = "idle" /\ pageRequests # <<>>) =>
       LET last == pageRequests[Len(pageRequests)] IN
       /\ ~isLoading
       /\ last.answer # InFlight
       /\ IsSome(pageError) <=> RequestFailed(last.answer)
       /\ (last.url = PersonaUrl /\ ~RequestFailed(last.answer)) => FALSE
       /\ (last.url = LocationsUrl /\ RequestFailed(last.answer)) =>
            /\ pagePersona = last.body
            /\ IsSome(pagePersona)
            /\ pageLocations = <<>>
       /\ (last.url = LocationsUrl /\ ~RequestFailed(last.answer)) =>
            /\ pagePersona = last.body
            /\ pageLocations = Val(last.answer.payload)
  /\ pagePc # "idle" => isLoading /\ pageError = None

\* the second submission: the persona was generated, the locations request
\* answered 500, and the page shows the error with the persona and no
\* locations
C30_Witness ==
  /\ pagePc = "idle"
  /\ Len(pageRequests) = 4
  /\ pageRequests[4].url = LocationsUrl
  /\ pageRequests[4].answer.kind = "not_ok"
  /\ pageError = Some(apiErrorText(500))
  /\ IsSome(pagePersona)
  /\ ~isLoading
=============================================================================
